---- MODULE Spec2Model ----
(***************************************************************************)
(* State-machine model of misp-mcp: the MispClient gateway (client.ts),    *)
(* the request pipeline every client method goes through, and the tool     *)
(* handlers built on it (tools/*.ts).                                      *)
(*                                                                         *)
(* One invocation runs at a time.  An invocation is suspended at each      *)
(* `await` of a network call; the model has one action per way such a      *)
(* call can settle, and each of these actions also runs the handler code   *)
(* that follows the await up to the next network call or the final return. *)
(***************************************************************************)
EXTENDS Integers, Sequences, FiniteSets, TLC

VARIABLES
    config,      \* the client's configuration: this.baseUrl, this.apiKey, this.timeout
    params,      \* the parameters of the invoked client method
    pc,          \* "idle" (nothing invoked yet) | "await" (suspended on a network call) | "done"
    op,          \* the operation being invoked
    tags,        \* createEvent / addAttribute: params.tags (<<>> when unset or empty)
    batch,       \* misp_add_attributes_bulk: the attributes argument
    stage,       \* position inside the operation: "create" | "tag" | "refetch" | "add" | "single"
    idx,         \* loop index of the running for..of loop (1-based)
    created,     \* the value kept from the create call (data.Event / data.Attribute)
    results,     \* misp_add_attributes_bulk: the results array
    addOutcomes, \* history: for each finished item of the bulk loop, whether its try block threw
    calls,       \* history: every fetch issued by the invocation, with what the transport did and how request() settled
    phase,       \* request(): "none" | "fetch" (awaiting fetch) | "body" (awaiting response.text())
    elapsed,     \* ticks since the running request() was started
    outcome,     \* how the invocation ended
    summary,     \* misp_add_attributes_bulk: the returned counts
    invocations, \* history: how many invocations have been started on this client
    fetches,     \* history: how many times fetch has been called since the client was built
    tool,        \* the tool handler invoked ("none" before the invocation)
    tpc,         \* the handler's position: "idle" | "await" (suspended on a client call) | "done"
    targs,       \* the handler's arguments
    event,       \* misp_get_related_events: what client.getEvent returned
    valuesToSearch, \* misp_get_related_events: the values selected for searching
    tidx,        \* misp_get_related_events: index of the running search (1-based)
    relatedMap,  \* misp_get_related_events: the Map's entries in insertion order
    tcalls,      \* history: every client method call of the handler, with how it settled
    tout,        \* what the handler returned
    inv,         \* interleaved invocations: the handler state of each invocation
    maps         \* interleaved invocations: the relatedMap objects, in insertion order

clientVars == <<config, params, pc, op, tags, batch, stage, idx, created, results, addOutcomes,
                calls, phase, elapsed, outcome, summary, invocations, fetches>>

toolVars == <<tool, tpc, targs, event, valuesToSearch, tidx, relatedMap, tcalls, tout>>

ivVars == <<inv, maps>>

vars == <<config, params, pc, op, tags, batch, stage, idx, created, results, addOutcomes,
          calls, phase, elapsed, outcome, summary, invocations, fetches,
          tool, tpc, targs, event, valuesToSearch, tidx, relatedMap, tcalls, tout,
          inv, maps>>

----------------------------------------------------------------------------
(* Bounds of the model *)

\* config.timeout, in clock ticks
TimeoutTicks == 1
\* how many ticks past the timeout the clock is followed
Overrun == 1
\* longest tag list given to createEvent / addAttribute
MaxTags == 2
\* longest batch given to misp_add_attributes_bulk
MaxBatch == 2
\* how many times in a row a single-call client method is invoked
MaxInvocations == 2

\* the longest attribute list searchAttributes returns to misp_correlate
MaxAttrs == 3
\* the longest attribute list of the short source events
MaxEventAttrs == 2
\* .slice(0, 20): the most values misp_get_related_events searches for
SearchCap == 20

\* how many tool invocations interleave
MaxConcurrent == 2

MaxElapsed == TimeoutTicks + Overrun

----------------------------------------------------------------------------
(* JavaScript values *)

Undef == "undefined"

\* JavaScript truthiness of a string-or-undefined value
Truthy(s) == s # Undef /\ s # ""

\* The tag lists given as params.tags: the prefixes of AllTags, and one list
\* that is not in AllTags' order
AllTags == <<"tlp:white", "tlp:green", "tlp:amber">>
TagLists ==
    {SubSeq(AllTags, 1, n) : n \in 0..(IF MaxTags < 3 THEN MaxTags ELSE 3)}
        \cup (IF MaxTags >= 2 THEN {<<"tlp:green", "tlp:white">>} ELSE {})

\* The batches: attribute i of a batch has value "10.0.0.i"
AttrValue(i) == CASE i = 1 -> "10.0.0.1" [] i = 2 -> "10.0.0.2" [] i = 3 -> "10.0.0.3"
                  [] OTHER -> "10.0.0.x"
Batches == {[i \in 1..n |-> [value |-> AttrValue(i), type |-> "ip-src"]] : n \in 0..MaxBatch}

----------------------------------------------------------------------------
(* What the remote side and the transport can do *)

\* Response bodies.  The structured ones are named relative to what the
\* called endpoint is expected to answer: "entity" is the Event / Attribute
\* wrapper, "list" the response / Tag / array wrapper.
BodyEmpty    == ""
BodyHtml     == "<html>Bad Gateway</html>"
BodyNull     == "null"
BodyObject   == "{}"
BodyMessage  == "{message:'denied'}"
BodyErrors   == "{errors:'bad value'}"
BodyEntity   == "{entity:{id:'99'}}"
BodyNoId     == "{entity:{info:'x'}}"
BodyList0    == "{list:[]}"
BodyList1    == "{list:[item]}"

Bodies == {BodyEmpty, BodyHtml, BodyNull, BodyObject, BodyMessage, BodyErrors,
           BodyEntity, BodyNoId, BodyList0, BodyList1}

Statuses == {200, 401, 403, 404, 405, 500, 503}

\* The (status, body) pairs the remote answers with: every body with the
\* success status, every body an error detail is taken from with an
\* untabled status, and a JSON message and a non-JSON page with the others.
ErrorBodies == {BodyEmpty, BodyHtml, BodyNull, BodyObject, BodyMessage, BodyErrors}
Responses ==
    ({200} \X Bodies) \cup ({500} \X ErrorBodies)
        \cup ({401, 403, 404, 405, 503} \X {BodyMessage, BodyHtml})

\* Messages of the errors fetch rejects with when the network fails
Causes == {"ECONNREFUSED"}

----------------------------------------------------------------------------
(* JSON.parse on the response bodies *)

NoData == [isNull |-> FALSE, message |-> Undef, errors |-> Undef,
           hasEntity |-> FALSE, id |-> Undef, hasList |-> FALSE, n |-> 0]

\* JSON.parse(text): ok = FALSE stands for the SyntaxError it throws
JsonParse(text) ==
    CASE text = BodyNull    -> [ok |-> TRUE, v |-> [NoData EXCEPT !.isNull = TRUE]]
      [] text = BodyObject  -> [ok |-> TRUE, v |-> NoData]
      [] text = BodyMessage -> [ok |-> TRUE, v |-> [NoData EXCEPT !.message = "denied"]]
      [] text = BodyErrors  -> [ok |-> TRUE, v |-> [NoData EXCEPT !.errors = "bad value"]]
      [] text = BodyEntity  -> [ok |-> TRUE, v |-> [NoData EXCEPT !.hasEntity = TRUE, !.id = "99"]]
      [] text = BodyNoId    -> [ok |-> TRUE, v |-> [NoData EXCEPT !.hasEntity = TRUE]]
      [] text = BodyList0   -> [ok |-> TRUE, v |-> [NoData EXCEPT !.hasList = TRUE]]
      [] text = BodyList1   -> [ok |-> TRUE, v |-> [NoData EXCEPT !.hasList = TRUE, !.n = 1]]
      [] OTHER              -> [ok |-> FALSE, v |-> NoData]

----------------------------------------------------------------------------
(* MispClient.request *)

\* this.timeout
timeout == TimeoutTicks

\* The configuration the constructor copies from its argument
Config == [baseUrl |-> "https://misp.example/misp", apiKey |-> "k3y", timeout |-> timeout]

\* A mutant of RequestHeaders: the credential is sent with a scheme prefix
RequestHeadersBearer(cfg) ==
    [Authorization |-> "Bearer " \o cfg.apiKey,
     Accept |-> "application/json", ContentType |-> "application/json"]

\* The headers request() gives to fetch
RequestHeaders(cfg) ==
    [Authorization |-> cfg.apiKey,
     Accept |-> "application/json", ContentType |-> "application/json"]

NoErr == [kind |-> "none", status |-> 0, detail |-> "", duration |-> 0]

\* An Error whose message is `${kind text}: ${detail}`
Err(kind, status, detail, duration) ==
    [kind |-> kind, status |-> status, detail |-> detail, duration |-> duration]

\* What request() settles with: the parsed data or the raw text, or an error
Returned(data, text) == [ok |-> TRUE, err |-> NoErr, data |-> data, text |-> text]
Threw(e)             == [ok |-> FALSE, err |-> e, data |-> NoData, text |-> ""]

\* The errors fetch rejects with
AbortError        == [name |-> "AbortError", message |-> "This operation was aborted"]
NetworkError(msg) == [name |-> "TypeError", message |-> msg]

\* Mutant of FetchCatch: the abort is looked for under the wrong error name
FetchCatchWrongName(err) ==
    IF err.name = "TimeoutError"
    THEN Threw(Err("Timeout", 0, "", timeout))
    ELSE Threw(Err("TransportFailure", 0, err.message, 0))

\* The catch clause around fetch
FetchCatch(err) ==
    IF err.name = "AbortError"
    THEN Threw(Err("Timeout", 0, "", timeout))
    ELSE Threw(Err("TransportFailure", 0, err.message, 0))

\* response.ok
ResponseOk(status) == status \in 200..299

\* Mutant of StatusPrefix: the table lacks the 405 row
StatusPrefixNo405(status) ==
    CASE status = 401 -> [kind |-> "Unauthorized", status |-> 0]
      [] status = 403 -> [kind |-> "Forbidden", status |-> 0]
      [] status = 404 -> [kind |-> "NotFound", status |-> 0]
      [] OTHER        -> [kind |-> "RemoteError", status |-> status]

\* statusMessages[response.status] || `HTTP ${response.status}`
StatusPrefix(status) ==
    CASE status = 401 -> [kind |-> "Unauthorized", status |-> 0]
      [] status = 403 -> [kind |-> "Forbidden", status |-> 0]
      [] status = 404 -> [kind |-> "NotFound", status |-> 0]
      [] status = 405 -> [kind |-> "MethodNotAllowed", status |-> 0]
      [] OTHER        -> [kind |-> "RemoteError", status |-> status]

\* detail = parsed.message || parsed.errors || text, or text when parsing
\* (or reading a property of null) throws
ErrorDetail(text) ==
    LET p == JsonParse(text)
    IN  IF ~p.ok \/ p.v.isNull THEN text
        ELSE IF Truthy(p.v.message) THEN p.v.message
        ELSE IF Truthy(p.v.errors) THEN p.v.errors
        ELSE text

\* Mutant of HandleResponse: a body that does not parse is swallowed and an
\* empty object returned
HandleResponseSwallowsParseError(status, text, rawResponse) ==
    IF ~ResponseOk(status)
    THEN LET prefix == StatusPrefix(status)
         IN  Threw(Err(prefix.kind, prefix.status, ErrorDetail(text), 0))
    ELSE IF rawResponse THEN Returned(NoData, text)
    ELSE LET p == JsonParse(text)
         IN  IF p.ok THEN Returned(p.v, text) ELSE Returned(NoData, text)

\* request() from the point where the body text has been read
HandleResponse(status, text, rawResponse) ==
    IF ~ResponseOk(status)
    THEN LET prefix == StatusPrefix(status)
         IN  Threw(Err(prefix.kind, prefix.status, ErrorDetail(text), 0))
    ELSE IF rawResponse THEN Returned(NoData, text)
    ELSE LET p == JsonParse(text)
         IN  IF p.ok THEN Returned(p.v, text)
             ELSE Threw(Err("MalformedResponse", 0, text, 0))

\* A rejection of response.text() is not caught by request()
BodyReadThrows(msg) == Threw(Err("BodyReadError", 0, msg, 0))

\* A TypeError raised by a property access on null / undefined
TypeError == Err("TypeError", 0, "Cannot read properties", 0)

----------------------------------------------------------------------------
(* Values passed between the client methods and their callers *)

\* type: "none" | "undefined" | "entity" | "list" | "text".  src is the
\* number of the call (in `calls`) whose response the value was taken from.
NoVal == [type |-> "none", id |-> Undef, n |-> 0, text |-> "", src |-> 0]

\* data.Event / data.Attribute of a parsed, non-null response
EntityOf(data, k) ==
    IF data.hasEntity
    THEN [NoVal EXCEPT !.type = "entity", !.id = data.id, !.src = k]
    ELSE [NoVal EXCEPT !.type = "undefined", !.src = k]

\* data.response / data.Tag of a parsed, non-null response, or the [] default
ListOf(data, k) ==
    [NoVal EXCEPT !.type = "list", !.n = IF data.hasList THEN data.n ELSE 0, !.src = k]

\* What a method does when the call it awaited has settled: issue the next
\* call, return, throw, or (tool handlers) return an error payload.
Step == [do |-> "return", kind |-> "", arg |-> "", raw |-> FALSE,
         stage |-> "", idx |-> 0, created |-> NoVal,
         value |-> NoVal, err |-> NoErr]

Return(v)   == [Step EXCEPT !.do = "return", !.value = v]
Throw(e)    == [Step EXCEPT !.do = "throw", !.err = e]
Request(kind, arg, raw, stg, i, c) ==
    [Step EXCEPT !.do = "request", !.kind = kind, !.arg = arg, !.raw = raw,
                 !.stage = stg, !.idx = i, !.created = c]

----------------------------------------------------------------------------
(* MispClient methods: the code that runs after each awaited call.  r is   *)
(* what request() settled with, k the number of that call.                 *)

\* getEvent: return data.Event
GetEventStep(r, k) ==
    IF ~r.ok THEN Throw(r.err)
    ELSE IF r.data.isNull THEN Throw(TypeError)
    ELSE Return(EntityOf(r.data, k))

\* Mutant of CreateEventStep: the created event is returned after the last
\* tag call, without the refetch
CreateEventStepNoRefetch(stg, i, c, tgs, r, k) ==
    CASE stg = "create" ->
           IF ~r.ok THEN Throw(r.err)
           ELSE IF Len(tgs) > 0
           THEN IF r.data.isNull \/ ~r.data.hasEntity THEN Throw(TypeError)
                ELSE IF Truthy(r.data.id)
                THEN Request("/events/addTag", tgs[1], FALSE, "tag", 1, EntityOf(r.data, k))
                ELSE Return(EntityOf(r.data, k))
           ELSE IF r.data.isNull THEN Throw(TypeError)
           ELSE Return(EntityOf(r.data, k))
      [] OTHER ->
           IF ~r.ok THEN Throw(r.err)
           ELSE IF i < Len(tgs)
           THEN Request("/events/addTag", tgs[i + 1], FALSE, "tag", i + 1, c)
           ELSE Return(c)

\* A mutant of CreateEventStep: a failed tag call is followed by a delete of
\* the created event
CreateEventStepRollsBack(stg, i, c, tgs, r, k) ==
    CASE stg = "create" ->
           IF ~r.ok THEN Throw(r.err)
           ELSE IF Len(tgs) > 0
           THEN IF r.data.isNull \/ ~r.data.hasEntity THEN Throw(TypeError)
                ELSE IF Truthy(r.data.id)
                THEN Request("/events/addTag", tgs[1], FALSE, "tag", 1, EntityOf(r.data, k))
                ELSE Return(EntityOf(r.data, k))
           ELSE IF r.data.isNull THEN Throw(TypeError)
           ELSE Return(EntityOf(r.data, k))
      [] stg = "tag" ->
           IF ~r.ok THEN Request("/events/delete", c.id, FALSE, "rollback", i, c)
           ELSE IF i < Len(tgs)
           THEN Request("/events/addTag", tgs[i + 1], FALSE, "tag", i + 1, c)
           ELSE Request("/events/view", c.id, FALSE, "refetch", i, c)
      [] stg = "rollback" -> Throw(TypeError)
      [] OTHER -> GetEventStep(r, k)

\* createEvent
CreateEventStep(stg, i, c, tgs, r, k) ==
    CASE stg = "create" ->
           IF ~r.ok THEN Throw(r.err)
           ELSE IF Len(tgs) > 0
           THEN \* params.tags && params.tags.length > 0 && data.Event.id
                IF r.data.isNull \/ ~r.data.hasEntity THEN Throw(TypeError)
                ELSE IF Truthy(r.data.id)
                THEN Request("/events/addTag", tgs[1], FALSE, "tag", 1, EntityOf(r.data, k))
                ELSE Return(EntityOf(r.data, k))
           ELSE IF r.data.isNull THEN Throw(TypeError)
           ELSE Return(EntityOf(r.data, k))
      [] stg = "tag" ->
           \* await this.tagEvent(...) inside the for..of loop
           IF ~r.ok THEN Throw(r.err)
           ELSE IF i < Len(tgs)
           THEN Request("/events/addTag", tgs[i + 1], FALSE, "tag", i + 1, c)
           ELSE Request("/events/view", c.id, FALSE, "refetch", i, c)
      [] OTHER -> GetEventStep(r, k)

\* addAttribute
AddAttributeStep(stg, i, c, tgs, r, k) ==
    CASE stg = "create" ->
           IF ~r.ok THEN Throw(r.err)
           ELSE IF r.data.isNull THEN Throw(TypeError)
           ELSE IF Len(tgs) > 0 /\ r.data.hasEntity /\ Truthy(r.data.id)
           THEN Request("/attributes/addTag", tgs[1], FALSE, "tag", 1, EntityOf(r.data, k))
           ELSE Return(EntityOf(r.data, k))
      [] OTHER ->
           IF ~r.ok THEN Throw(r.err)
           ELSE IF i < Len(tgs)
           THEN Request("/attributes/addTag", tgs[i + 1], FALSE, "tag", i + 1, c)
           ELSE Return(c)

\* Mutant of SearchEventsStep: a failed search is sent once more
SearchEventsStepRetries(r, k) ==
    IF ~r.ok
    THEN IF k < 2
         THEN Request("/events/restSearch", "", FALSE, "single", 0, NoVal)
         ELSE Throw(r.err)
    ELSE IF r.data.isNull THEN Throw(TypeError)
    ELSE Return(ListOf(r.data, k))

\* searchEvents: (data.response || []).map(...)
SearchEventsStep(r, k) ==
    IF ~r.ok THEN Throw(r.err)
    ELSE IF r.data.isNull THEN Throw(TypeError)
    ELSE Return(ListOf(r.data, k))

\* searchAttributes: data.response?.Attribute || []
SearchAttributesStep(r, k) ==
    IF ~r.ok THEN Throw(r.err)
    ELSE IF r.data.isNull THEN Throw(TypeError)
    ELSE Return(ListOf(r.data, k))

\* listTags: data.Tag || []
ListTagsStep(r, k) ==
    IF ~r.ok THEN Throw(r.err)
    ELSE IF r.data.isNull THEN Throw(TypeError)
    ELSE Return(ListOf(r.data, k))

\* listTaxonomies: (data || []).map(...); the response itself is the array
ListTaxonomiesStep(r, k) ==
    IF ~r.ok THEN Throw(r.err)
    ELSE IF r.data.isNull THEN Return(ListOf(NoData, k))
    ELSE IF r.data.hasList THEN Return(ListOf(r.data, k))
    ELSE Throw(TypeError)

\* exportEvents: the text as it came
ExportEventsStep(r, k) ==
    IF ~r.ok THEN Throw(r.err)
    ELSE Return([NoVal EXCEPT !.type = "text", !.text = r.text, !.src = k])

\* exportHashes: the text as it came
ExportHashesStep(r, k) ==
    IF ~r.ok THEN Throw(r.err)
    ELSE Return([NoVal EXCEPT !.type = "text", !.text = r.text, !.src = k])

\* updateEvent: return data.Event
UpdateEventStep(r, k) ==
    IF ~r.ok THEN Throw(r.err)
    ELSE IF r.data.isNull THEN Throw(TypeError)
    ELSE Return(EntityOf(r.data, k))

\* addSighting: return data.Sighting
AddSightingStep(r, k) ==
    IF ~r.ok THEN Throw(r.err)
    ELSE IF r.data.isNull THEN Throw(TypeError)
    ELSE Return(EntityOf(r.data, k))

\* describeTypes: return data.result
DescribeTypesStep(r, k) ==
    IF ~r.ok THEN Throw(r.err)
    ELSE IF r.data.isNull THEN Throw(TypeError)
    ELSE Return(EntityOf(r.data, k))

\* publishEvent, tagEvent, untagEvent, deleteAttribute, checkWarninglists,
\* getStatistics: return this.request(...), the parsed response as it is
PassThroughStep(r, k) ==
    IF ~r.ok THEN Throw(r.err)
    ELSE Return([NoVal EXCEPT !.type = "data", !.src = k])

----------------------------------------------------------------------------
(* misp_add_attributes_bulk (tools/attributes.ts) *)

\* The entry pushed on `results` for one item: the body of the for..of loop
BulkEntry(item, r, k) ==
    LET a == AddAttributeStep("create", 0, NoVal, <<>>, r, k)
    IN  IF a.do = "throw"
        THEN [value |-> item.value, type |-> item.type, id |-> Undef, error |-> a.err]
        ELSE IF a.value.type = "undefined"
        THEN \* created.id on undefined throws inside the inner try
             [value |-> item.value, type |-> item.type, id |-> Undef, error |-> TypeError]
        ELSE [value |-> item.value, type |-> item.type, id |-> a.value.id, error |-> NoErr]

\* Mutant of BulkStep: no inner try/catch, so a failed item ends the loop
BulkStepAbortsOnFailure(i, bt, r, k) ==
    IF ~r.ok THEN Throw(r.err)
    ELSE IF i < Len(bt)
    THEN Request("/attributes/add", bt[i + 1].value, FALSE, "add", i + 1, NoVal)
    ELSE Return(NoVal)

\* The loop control: next item, or fall out of the loop
BulkStep(i, bt, r, k) ==
    IF i < Len(bt)
    THEN Request("/attributes/add", bt[i + 1].value, FALSE, "add", i + 1, NoVal)
    ELSE Return(NoVal)

\* total / succeeded / failed of the returned text
BulkSummary(bt, res) ==
    [total     |-> Len(bt),
     succeeded |-> Cardinality({i \in 1..Len(res) : Truthy(res[i].id)}),
     failed    |-> Cardinality({i \in 1..Len(res) : res[i].error.kind # "none"})]

NoSummary == [total |-> 0, succeeded |-> 0, failed |-> 0]

----------------------------------------------------------------------------
(* Tool handlers (tools/*.ts): the values they work on.  At this level a   *)
(* client method call settles in one step: it returns its value or throws  *)
(* one of the errors request() produces.                                   *)

\* An optional array field: absent, or present with its items
Absent     == [present |-> FALSE, items |-> <<>>]
Present(s) == [present |-> TRUE, items |-> s]

\* The errors a client method call can throw: a timeout, a transport
\* failure, a classified remote failure and a malformed response
ClientErrors ==
    {FetchCatch(AbortError).err,
     FetchCatch(NetworkError("ECONNREFUSED")).err,
     HandleResponse(404, BodyMessage, FALSE).err,
     HandleResponse(200, BodyHtml, FALSE).err}

\* The event ids of the remote side; SourceId is the eventId argument of
\* misp_get_related_events
SourceId == "42"
EventIds == {"42", "43", "44"}

\* RelatedAttribute items as the platform sends them
Rel1 == [id |-> "901", value |-> "evil.example", type |-> "domain", event_id |-> "50"]
Rel2 == [id |-> "902", value |-> "10.0.0.1", type |-> "ip-dst", event_id |-> "51"]

\* The attributes searchAttributes can return.  The id of an attribute is
\* its position in the response.
AttrKinds ==
    [event_id : {"43", "44"},
     related  : {Absent, Present(<<>>), Present(<<Rel1>>), Present(<<Rel1, Rel2>>)}]

WithIds(s) ==
    [i \in 1..Len(s) |-> [id |-> i, event_id |-> s[i].event_id, related |-> s[i].related]]

\* The answers to the search of misp_correlate
CorrelateAnswers ==
    {WithIds(s) : s \in UNION {[1..n -> AttrKinds] : n \in 0..MaxAttrs}}

\* The answers to a search of misp_get_related_events, given by the events
\* of the matching attributes
Matches(eids) ==
    [i \in 1..Len(eids) |-> [id |-> i, event_id |-> eids[i], related |-> Absent]]

MatchLists ==
    {Matches(eids) : eids \in {<<>>, <<"43">>, <<"42">>, <<"43", "43">>,
                               <<"43", "44">>, <<"44", "43">>, <<"42", "44">>,
                               <<"44", "44", "43">>}}

\* The answer to every search of an event with more flagged attributes than
\* the short events have
LongMatches == Matches(<<"43">>)

\* The attributes of the source event
EventAttrKinds ==
    {[value |-> "v1", to_ids |-> TRUE], [value |-> "v2", to_ids |-> TRUE],
     [value |-> "v1", to_ids |-> FALSE]}

ShortAttrLists == UNION {[1..n -> EventAttrKinds] : n \in 0..MaxEventAttrs}

\* Attribute lists around the search cap: n attributes with alternating
\* values, all flagged but the second
LongAttrs(n) ==
    [i \in 1..n |-> [value |-> IF i % 2 = 1 THEN "v1" ELSE "v2", to_ids |-> i # 2]]

LongAttrLists == {LongAttrs(n) : n \in SearchCap..(SearchCap + 2)}

\* The RelatedEvent back-references of the source event, as event ids
BackRefs == {<<>>, <<"43">>, <<"44", "43">>, <<"43", "43">>, <<"42">>}

\* What client.getEvent can return: data.Event, undefined when the response
\* has no Event
UndefinedEvent == [defined |-> FALSE, Attribute |-> <<>>, RelatedEvent |-> <<>>]

SourceEvents ==
    {[defined |-> TRUE, Attribute |-> a, RelatedEvent |-> b] :
        a \in ShortAttrLists, b \in BackRefs}
    \cup {[defined |-> TRUE, Attribute |-> a, RelatedEvent |-> <<>>] : a \in LongAttrLists}
    \cup {UndefinedEvent}

\* What a client method creating or fetching one entity can return
Entities == {[defined |-> TRUE, id |-> "7"], [defined |-> FALSE, id |-> Undef]}

----------------------------------------------------------------------------
(* misp_correlate (tools/events.ts) *)

\* A mutant of GroupByEvent: a new group is opened for every attribute
RECURSIVE GroupByEventNoHas(_, _)
GroupByEventNoHas(attributes, eventMap) ==
    IF attributes = <<>>
    THEN eventMap
    ELSE LET attr == Head(attributes)
         IN  GroupByEventNoHas(Tail(attributes),
                 Append(eventMap, [event_id |-> attr.event_id, attributes |-> <<attr.id>>]))

\* eventMap after the loop over the attributes: one group per event id, in
\* the order the event ids were first seen
RECURSIVE GroupByEvent(_, _)
GroupByEvent(attributes, eventMap) ==
    IF attributes = <<>>
    THEN eventMap
    ELSE LET attr == Head(attributes)
             eid  == attr.event_id
             has  == \E j \in 1..Len(eventMap) : eventMap[j].event_id = eid
             m1   == IF has THEN eventMap
                     ELSE Append(eventMap, [event_id |-> eid, attributes |-> <<>>])
             j    == CHOOSE j \in 1..Len(m1) : m1[j].event_id = eid
         IN  GroupByEvent(Tail(attributes),
                          [m1 EXCEPT ![j].attributes = Append(@, attr.id)])

\* { value, type, event_id } of each item of RelatedAttribute
RelTuples(rels) ==
    [i \in 1..Len(rels) |->
        [value |-> rels[i].value, type |-> rels[i].type, event_id |-> rels[i].event_id]]

\* The correlations array after the loop over the attributes
RECURSIVE CollectCorrelations(_)
CollectCorrelations(attributes) ==
    IF attributes = <<>>
    THEN <<>>
    ELSE LET attr == Head(attributes)
         IN  (IF attr.related.present THEN RelTuples(attr.related.items) ELSE <<>>)
             \o CollectCorrelations(Tail(attributes))

\* A mutant of CorrelationsField: an empty list is written as such
CorrelationsFieldKeepsEmpty(correlations) == Present(correlations)

\* correlations.length > 0 ? correlations : undefined; JSON.stringify leaves
\* out a field whose value is undefined
CorrelationsField(correlations) ==
    IF Len(correlations) > 0 THEN Present(correlations) ELSE Absent

----------------------------------------------------------------------------
(* misp_get_related_events (tools/events.ts) *)

\* A mutant of NothingToCorrelate: the handler never short-circuits
NothingToCorrelateNever(eventAttributes) == FALSE

\* if (eventAttributes.length === 0): nothing to correlate
NothingToCorrelate(eventAttributes) == Len(eventAttributes) = 0

NewEntry(eid) == [event_id |-> eid, overlapping_iocs |-> <<>>, correlation_count |-> 0]

\* A mutant of MapHas: no key is ever found
MapHasNever(m, eid) == FALSE

\* relatedMap.has(eid)
MapHas(m, eid) == \E j \in 1..Len(m) : m[j].event_id = eid

\* Map.set: a new key is appended, the value of a known key is replaced in
\* its place
MapSet(m, entry) ==
    IF MapHas(m, entry.event_id)
    THEN [j \in 1..Len(m) |-> IF m[j].event_id = entry.event_id THEN entry ELSE m[j]]
    ELSE Append(m, entry)

\* A mutant of Seed: the back-references are not used
SeedNothing(relatedEvents, m) == m

\* relatedMap after the loop over event.RelatedEvent
RECURSIVE Seed(_, _)
Seed(relatedEvents, m) ==
    IF relatedEvents = <<>>
    THEN m
    ELSE Seed(Tail(relatedEvents), MapSet(m, NewEntry(Head(relatedEvents))))

Min(a, b) == IF a < b THEN a ELSE b

IsFlagged(a) == a.to_ids

\* A mutant of ValuesToSearch: the list is cut before it is filtered
ValuesToSearchCutFirst(eventAttributes) ==
    LET cut     == SubSeq(eventAttributes, 1, Min(Len(eventAttributes), SearchCap))
        flagged == SelectSeq(cut, IsFlagged)
    IN  [i \in 1..Len(flagged) |-> flagged[i].value]

\* eventAttributes.filter((a) => a.to_ids).slice(0, 20).map((a) => a.value)
ValuesToSearch(eventAttributes) ==
    LET flagged == SelectSeq(eventAttributes, IsFlagged)
        cut     == SubSeq(flagged, 1, Min(Len(flagged), SearchCap))
    IN  [i \in 1..Len(cut) |-> cut[i].value]

Includes(s, v) == \E i \in 1..Len(s) : s[i] = v

\* A mutant of ProcessMatches: the count goes up only when the value is new
\* to the entry
RECURSIVE ProcessMatchesCountsValues(_, _, _, _)
ProcessMatchesCountsValues(matches, value, eventId, m) ==
    IF matches = <<>>
    THEN m
    ELSE LET match == Head(matches)
             m1    == IF MapHas(m, match.event_id) THEN m
                      ELSE Append(m, NewEntry(match.event_id))
             j     == CHOOSE j \in 1..Len(m1) : m1[j].event_id = match.event_id
             isNew == ~Includes(m1[j].overlapping_iocs, value)
             m2    == IF isNew
                      THEN [m1 EXCEPT ![j].overlapping_iocs = Append(@, value),
                                      ![j].correlation_count = @ + 1]
                      ELSE m1
         IN  ProcessMatchesCountsValues(Tail(matches), value, eventId,
                            IF match.event_id # eventId THEN m2 ELSE m)

\* relatedMap after the loop over the matches of one searched value
RECURSIVE ProcessMatches(_, _, _, _)
ProcessMatches(matches, value, eventId, m) ==
    IF matches = <<>>
    THEN m
    ELSE LET match == Head(matches)
             m1    == IF MapHas(m, match.event_id) THEN m
                      ELSE Append(m, NewEntry(match.event_id))
             j     == CHOOSE j \in 1..Len(m1) : m1[j].event_id = match.event_id
             iocs  == IF Includes(m1[j].overlapping_iocs, value)
                      THEN m1[j].overlapping_iocs
                      ELSE Append(m1[j].overlapping_iocs, value)
             m2    == [m1 EXCEPT ![j].overlapping_iocs = iocs,
                                 ![j].correlation_count = @ + 1]
         IN  ProcessMatches(Tail(matches), value, eventId,
                            IF match.event_id # eventId THEN m2 ELSE m)

\* A mutant of InsertSorted: x goes before the entries of equal count
RECURSIVE InsertSortedUnstable(_, _)
InsertSortedUnstable(sorted, x) ==
    IF sorted = <<>>
    THEN <<x>>
    ELSE IF Head(sorted).correlation_count > x.correlation_count
         THEN <<Head(sorted)>> \o InsertSortedUnstable(Tail(sorted), x)
         ELSE <<x>> \o sorted

\* Insertion of x into a list sorted by descending correlation_count, after
\* the entries that do not compare greater than it
RECURSIVE InsertSorted(_, _)
InsertSorted(sorted, x) ==
    IF sorted = <<>>
    THEN <<x>>
    ELSE IF Head(sorted).correlation_count >= x.correlation_count
         THEN <<Head(sorted)>> \o InsertSorted(Tail(sorted), x)
         ELSE <<x>> \o sorted

\* Array.from(relatedMap.values()).sort((a, b) => b.correlation_count -
\* a.correlation_count): Array.prototype.sort is stable
RECURSIVE SortRelated(_, _)
SortRelated(entries, sorted) ==
    IF entries = <<>>
    THEN sorted
    ELSE SortRelated(Tail(entries), InsertSorted(sorted, Head(entries)))

----------------------------------------------------------------------------
(* misp_add_sighting (tools/sightings.ts) *)

\* A mutant of SightingRejected: only a missing attributeId and value are
\* rejected, not empty ones
SightingRejectedUndefinedOnly(attributeId, value) ==
    attributeId = Undef /\ value = Undef

\* if (!params.attributeId && !params.value)
SightingRejected(attributeId, value) == ~Truthy(attributeId) /\ ~Truthy(value)

----------------------------------------------------------------------------
(* What the tool handlers return *)

\* kind: "none" | "result" (the JSON result) | "no_results" | "nothing_to_correlate"
\*       | "InvalidRequest" | "error" (the catch clause)
NoPayload ==
    [status |-> "none", isError |-> FALSE, kind |-> "none", err |-> NoErr,
     found_in_events |-> <<>>, total_events |-> 0, total_attributes |-> 0,
     correlations |-> Absent, related_events |-> <<>>, total_related |-> 0,
     id |-> Undef]

Payload(kind) == [NoPayload EXCEPT !.status = "returned", !.kind = kind]

\* A mutant of ToolCatch: the error payload carries the candidates found so
\* far
ToolCatchKeepsCandidates(e) ==
    [NoPayload EXCEPT !.status = "returned", !.kind = "error", !.isError = TRUE,
                      !.err = e, !.related_events = relatedMap,
                      !.total_related = Len(relatedMap)]

\* A mutant of ToolCatch: the error leaves the handler
ToolCatchRethrows(e) == [NoPayload EXCEPT !.status = "threw", !.err = e]

\* The catch clause of a handler: an error payload with the error's message
ToolCatch(e) == [Payload("error") EXCEPT !.isError = TRUE, !.err = e]

\* The result of misp_correlate
CorrelateResult(attributes) ==
    IF Len(attributes) = 0
    THEN Payload("no_results")
    ELSE LET eventMap == GroupByEvent(attributes, <<>>)
         IN  [Payload("result") EXCEPT
                 !.found_in_events = eventMap,
                 !.total_events = Len(eventMap),
                 !.total_attributes = Len(attributes),
                 !.correlations = CorrelationsField(CollectCorrelations(attributes))]

\* The result of misp_get_related_events after the last search
RelatedResult(m) ==
    LET related == SortRelated(m, <<>>)
    IN  [Payload("result") EXCEPT !.related_events = related,
                                  !.total_related = Len(related)]

\* The result of a handler that reads the id of the entity it got: a
\* TypeError when the client returned undefined
EntityResult(v) ==
    IF v.defined THEN [Payload("result") EXCEPT !.id = v.id] ELSE ToolCatch(TypeError)

\* An invocation that has not started
NoInvocation ==
    [tool |-> "none", pc |-> "idle", eventId |-> Undef, event |-> UndefinedEvent,
     values |-> <<>>, idx |-> 0, calls |-> <<>>, out |-> NoPayload]

NoArgs == [eventId |-> Undef, value |-> Undef, attributeId |-> Undef]

\* A client method call of a handler
TCall(method, arg) ==
    [method |-> method, arg |-> arg, settled |-> "pending", err |-> NoErr,
     attrs |-> <<>>, defined |-> FALSE]

----------------------------------------------------------------------------
(* The request bodies of searchEvents and searchAttributes *)

\* An optional parameter: left unset (undefined), or set to v
Unset(v) == [set |-> FALSE, v |-> v]
Set(v)   == [set |-> TRUE, v |-> v]

\* A key of the body object: not in the object, or in it with value v
NoKey(v) == [present |-> FALSE, v |-> v]
Key(v)   == [present |-> TRUE, v |-> v]

\* params.limit ?? 50
DefaultLimit == 50

\* if (params.x) body.y = params.x, for a string parameter
StringKey(p) == IF p.set /\ p.v # "" THEN Key(p.v) ELSE NoKey("")

\* if (params.x) body.x = params.x, for a number parameter
NumberKey(p) == IF p.set /\ p.v # 0 THEN Key(p.v) ELSE NoKey(0)

\* if (params.tags) body.tags = params.tags: an empty array is truthy
ArrayKey(p) == IF p.set THEN Key(p.v) ELSE NoKey(<<>>)

\* if (params.x !== undefined) body.x = params.x ? 1 : 0
FlagKey(p) == IF p.set THEN Key(IF p.v THEN 1 ELSE 0) ELSE NoKey(0)

\* limit: params.limit ?? 50
LimitKey(p) == Key(IF p.set THEN p.v ELSE DefaultLimit)

\* The parameters of the search methods; the ones a method does not have
\* stay unset
NoParams ==
    [value |-> Unset(""), type |-> Unset(""), category |-> Unset(""),
     tags |-> Unset(<<>>), eventid |-> Unset(""), org |-> Unset(""),
     dateFrom |-> Unset(""), dateTo |-> Unset(""), last |-> Unset(""),
     published |-> Unset(FALSE), to_ids |-> Unset(FALSE),
     includeCorrelations |-> Unset(FALSE),
     limit |-> Unset(0), page |-> Unset(0), format |-> Unset("")]

\* The body object searchEvents builds
SearchEventsBody(p) ==
    [returnFormat |-> Key("json"),
     limit        |-> LimitKey(p.limit),
     value        |-> StringKey(p.value),
     type         |-> StringKey(p.type),
     category     |-> StringKey(p.category),
     tags         |-> ArrayKey(p.tags),
     eventid      |-> StringKey(p.eventid),
     org          |-> StringKey(p.org),
     from         |-> StringKey(p.dateFrom),
     to           |-> StringKey(p.dateTo),
     last         |-> StringKey(p.last),
     published    |-> FlagKey(p.published),
     page         |-> NumberKey(p.page)]

\* The body object searchAttributes builds
SearchAttributesBody(p) ==
    [returnFormat |-> Key("json"),
     limit        |-> LimitKey(p.limit),
     value        |-> StringKey(p.value),
     type         |-> StringKey(p.type),
     category     |-> StringKey(p.category),
     tags         |-> ArrayKey(p.tags),
     to_ids       |-> FlagKey(p.to_ids),
     includeCorrelations |->
        IF p.includeCorrelations.set /\ p.includeCorrelations.v THEN Key(1) ELSE NoKey(0),
     last         |-> StringKey(p.last)]

Strings(vs) == {Unset("")} \cup {Set(v) : v \in vs}
Flags       == {Unset(FALSE), Set(TRUE), Set(FALSE)}
Numbers(ns) == {Unset(0)} \cup {Set(n) : n \in ns}
TagFilters  == {Unset(<<>>), Set(<<>>), Set(<<"tlp:white">>)}

\* The parameter objects given to searchEvents
SearchEventsParams ==
    {[NoParams EXCEPT !.value = v, !.type = t, !.category = o, !.tags = tg,
                      !.eventid = e, !.org = o, !.dateFrom = d, !.dateTo = d,
                      !.last = l, !.published = pb, !.limit = lm, !.page = pg] :
        v \in Strings({"", "10.0.0.1"}), t \in Strings({"ip-dst"}),
        o \in Strings({"CIRCL"}), tg \in TagFilters, e \in Strings({"42"}),
        d \in Strings({"2024-01-01"}), l \in Strings({"7d"}),
        pb \in Flags, lm \in Numbers({10}), pg \in Numbers({0, 2})}

\* The parameter objects given to searchAttributes
SearchAttributesParams ==
    {[NoParams EXCEPT !.value = v, !.type = t, !.category = c, !.tags = tg,
                      !.to_ids = ti, !.includeCorrelations = ic,
                      !.last = l, !.limit = lm] :
        v \in Strings({"", "10.0.0.1"}), t \in Strings({"ip-dst"}),
        c \in Strings({"Network activity"}), tg \in TagFilters,
        ti \in Flags, ic \in Flags, l \in Strings({"7d"}), lm \in Numbers({10})}

----------------------------------------------------------------------------
(* exportEvents and exportHashes: the format check made before request() *)

\* Members every object literal inherits from Object.prototype (among
\* others); a lookup of such a name in formatEndpoints gives the inherited
\* function, which is truthy and is put into the url as its source text
InheritedMembers == {"constructor", "toString"}

InheritedText(name) ==
    IF name = "constructor"
    THEN "function Object() { [native code] }"
    ELSE "function " \o name \o "() { [native code] }"

\* formatEndpoints[params.format]
FormatEndpoints(format) ==
    CASE format = "csv"      -> "/events/csv/download"
      [] format = "stix"     -> "/events/stix/download"
      [] format = "suricata" -> "/events/nids/suricata/download"
      [] format = "snort"    -> "/events/nids/snort/download"
      [] format = "text"     -> "/attributes/text/download"
      [] format = "rpz"      -> "/attributes/rpz/download"
      [] format \in InheritedMembers -> InheritedText(format)
      [] OTHER               -> Undef

\* validFormats.includes(params.format)
ValidHashFormat(format) == format \in {"md5", "sha1", "sha256"}

\* The formats the export methods are called with
ExportEventsFormats == {"csv", "rpz", "invalid", "constructor"}
ExportHashesFormats == {"md5", "sha256", "sha512", "constructor"}

\* throw new Error(`Unsupported export format: ...`)
UnsupportedFormat(format) == Err("UnsupportedFormat", 0, format, 0)

----------------------------------------------------------------------------
(* The invocation state machine *)

\* The client methods that are one call to request()
ClientOps == {"searchEvents", "searchAttributes", "listTags", "listTaxonomies",
              "getEvent", "exportEvents", "exportHashes", "updateEvent",
              "publishEvent", "tagEvent", "untagEvent", "deleteAttribute",
              "addSighting", "checkWarninglists", "describeTypes", "getStatistics"}
RawOps    == {"exportEvents", "exportHashes"}
ToolOps   == {"misp_add_attributes_bulk"}

\* The endpoint of the single-call client methods
Endpoint(o) ==
    CASE o = "searchEvents"     -> "/events/restSearch"
      [] o = "searchAttributes" -> "/attributes/restSearch"
      [] o = "listTags"         -> "/tags"
      [] o = "listTaxonomies"   -> "/taxonomies"
      [] o = "getEvent"         -> "/events/view"
      [] o = "updateEvent"      -> "/events/edit"
      [] o = "publishEvent"     -> "/events/publish"
      [] o = "tagEvent"         -> "/events/addTag"
      [] o = "untagEvent"       -> "/events/removeTag"
      [] o = "deleteAttribute"  -> "/attributes/delete"
      [] o = "addSighting"      -> "/sightings/add"
      [] o = "checkWarninglists" -> "/warninglists/checkValue"
      [] o = "describeTypes"    -> "/attributes/describeTypes"
      [] OTHER                  -> "/events/index"

Pending == Threw(Err("pending", 0, "", 0))

\* A call as fetch receives it, before anything has come back
NewCall(kind, arg, raw) ==
    [kind |-> kind, arg |-> arg, raw |-> raw, headers |-> RequestHeaders(config),
     fetch |-> "pending", cause |-> "", status |-> 0, body |-> "",
     res |-> Pending]

NoOutcome == [status |-> "none", isError |-> FALSE, value |-> NoVal, err |-> NoErr]

Init ==
    /\ config = Config
    /\ params = NoParams
    /\ pc = "idle"
    /\ op = "none"
    /\ tags = <<>>
    /\ batch = <<>>
    /\ stage = ""
    /\ idx = 0
    /\ created = NoVal
    /\ results = <<>>
    /\ addOutcomes = <<>>
    /\ calls = <<>>
    /\ phase = "none"
    /\ elapsed = 0
    /\ outcome = NoOutcome
    /\ summary = NoSummary
    /\ invocations = 0
    /\ fetches = 0
    /\ tool = "none"
    /\ tpc = "idle"
    /\ targs = NoArgs
    /\ event = UndefinedEvent
    /\ valuesToSearch = <<>>
    /\ tidx = 0
    /\ relatedMap = <<>>
    /\ tcalls = <<>>
    /\ tout = NoPayload
    /\ inv = [i \in 1..MaxConcurrent |-> NoInvocation]
    /\ maps = [i \in 1..MaxConcurrent |-> <<>>]

\* The code of the running operation that follows the settled call
OpStep(r, k) ==
    CASE op = "createEvent"              -> CreateEventStep(stage, idx, created, tags, r, k)
      [] op = "addAttribute"             -> AddAttributeStep(stage, idx, created, tags, r, k)
      [] op = "misp_add_attributes_bulk" -> BulkStep(idx, batch, r, k)
      [] op = "searchEvents"             -> SearchEventsStep(r, k)
      [] op = "searchAttributes"         -> SearchAttributesStep(r, k)
      [] op = "listTags"                 -> ListTagsStep(r, k)
      [] op = "listTaxonomies"           -> ListTaxonomiesStep(r, k)
      [] op = "getEvent"                 -> GetEventStep(r, k)
      [] op = "exportEvents"             -> ExportEventsStep(r, k)
      [] op = "exportHashes"             -> ExportHashesStep(r, k)
      [] op = "updateEvent"              -> UpdateEventStep(r, k)
      [] op = "addSighting"              -> AddSightingStep(r, k)
      [] op = "describeTypes"            -> DescribeTypesStep(r, k)
      [] OTHER                           -> PassThroughStep(r, k)

\* How the invocation ends: a client method returns or throws; a tool
\* handler returns its payload, or its catch clause returns an error payload
Outcome(o, d) ==
    IF d.do = "return"
    THEN [status |-> "returned", isError |-> FALSE, value |-> d.value, err |-> NoErr]
    ELSE IF o \in ToolOps
    THEN [status |-> "returned", isError |-> TRUE, value |-> NoVal, err |-> d.err]
    ELSE [status |-> "threw", isError |-> FALSE, value |-> NoVal, err |-> d.err]

\* An operation is invoked and enters request(): the timer is armed and
\* fetch is awaited.  A single-call client method that has ended may be
\* invoked again with the same arguments.
Start(o, p, tg, bt, kind, arg, raw, stg, i) ==
    /\ tool = "none"
    /\ \/ pc = "idle"
       \/ pc = "done" /\ o \in ClientOps /\ op = o /\ params = p
          /\ invocations < MaxInvocations
    /\ pc' = "await"
    /\ params' = p
    /\ UNCHANGED config
    /\ op' = o
    /\ tags' = tg
    /\ batch' = bt
    /\ stage' = stg
    /\ idx' = i
    /\ created' = NoVal
    /\ results' = <<>>
    /\ addOutcomes' = <<>>
    /\ calls' = <<NewCall(kind, arg, raw)>>
    /\ phase' = "fetch"
    /\ elapsed' = 0
    /\ outcome' = NoOutcome
    /\ summary' = NoSummary
    /\ invocations' = invocations + 1
    /\ fetches' = fetches + 1
    /\ UNCHANGED <<toolVars, ivVars>>

InvokeCreateEvent(tg) ==
    Start("createEvent", NoParams, tg, <<>>, "/events/add", "", FALSE, "create", 0)

InvokeAddAttribute(tg) ==
    Start("addAttribute", NoParams, tg, <<>>, "/attributes/add", "", FALSE, "create", 0)

InvokeClientOp(o) ==
    Start(o, NoParams, <<>>, <<>>, Endpoint(o), "", FALSE, "single", 0)

\* A client method throws before it calls request()
Rejects(o, p, e) ==
    /\ tool = "none"
    /\ pc = "idle"
    /\ pc' = "done"
    /\ op' = o
    /\ params' = p
    /\ outcome' = Outcome(o, Throw(e))
    /\ invocations' = invocations + 1
    /\ UNCHANGED <<config, tags, batch, stage, idx, created, results, addOutcomes,
                   calls, phase, elapsed, summary, fetches>>
    /\ UNCHANGED <<toolVars, ivVars>>

\* exportEvents(params): the endpoint is looked up by the format
InvokeExportEvents(format) ==
    LET p        == [NoParams EXCEPT !.format = Set(format)]
        endpoint == FormatEndpoints(format)
    IN  IF ~Truthy(endpoint)
        THEN Rejects("exportEvents", p, UnsupportedFormat(format))
        ELSE Start("exportEvents", p, <<>>, <<>>, endpoint, "", TRUE, "single", 0)

\* exportHashes(params): the format is part of the path
InvokeExportHashes(format) ==
    LET p == [NoParams EXCEPT !.format = Set(format)]
    IN  IF ~ValidHashFormat(format)
        THEN Rejects("exportHashes", p, UnsupportedFormat(format))
        ELSE Start("exportHashes", p, <<>>, <<>>,
                   "/events/hids/" \o format \o "/download", "", TRUE, "single", 0)

\* The handler of misp_add_attributes_bulk up to its first await; with an
\* empty batch it returns at once
InvokeBulk(bt) ==
    IF Len(bt) > 0
    THEN Start("misp_add_attributes_bulk", NoParams, <<>>, bt, "/attributes/add", bt[1].value,
               FALSE, "add", 1)
    ELSE /\ tool = "none"
         /\ pc = "idle"
         /\ pc' = "done"
         /\ op' = "misp_add_attributes_bulk"
         /\ UNCHANGED <<config, params>>
         /\ tags' = <<>>
         /\ batch' = bt
         /\ stage' = "add"
         /\ idx' = 0
         /\ created' = NoVal
         /\ results' = <<>>
         /\ addOutcomes' = <<>>
         /\ calls' = <<>>
         /\ phase' = "none"
         /\ elapsed' = 0
         /\ outcome' = Outcome("misp_add_attributes_bulk", Return(NoVal))
         /\ summary' = BulkSummary(bt, <<>>)
         /\ invocations' = invocations + 1
         /\ fetches' = fetches
         /\ UNCHANGED <<toolVars, ivVars>>

\* The running call settles with r (lg is the log with the call's entry
\* filled in) and the operation runs on to its next await or to its end
Settle(lg, r) ==
    LET k    == Len(lg)
        d    == OpStep(r, k)
        bulk == op = "misp_add_attributes_bulk"
        res2 == IF bulk THEN Append(results, BulkEntry(batch[idx], r, k)) ELSE results
    IN  /\ calls' = IF d.do = "request" THEN Append(lg, NewCall(d.kind, d.arg, d.raw)) ELSE lg
        /\ pc' = IF d.do = "request" THEN "await" ELSE "done"
        /\ phase' = IF d.do = "request" THEN "fetch" ELSE "none"
        /\ elapsed' = 0
        /\ stage' = IF d.do = "request" THEN d.stage ELSE stage
        /\ idx' = IF d.do = "request" THEN d.idx ELSE idx
        /\ created' = IF d.do = "request" THEN d.created ELSE created
        /\ results' = res2
        /\ addOutcomes' =
             IF bulk
             THEN Append(addOutcomes, BulkEntry(batch[idx], r, k).error.kind # "none")
             ELSE addOutcomes
        /\ outcome' = IF d.do = "request" THEN outcome ELSE Outcome(op, d)
        /\ summary' = IF bulk /\ d.do = "return" THEN BulkSummary(batch, res2) ELSE summary
        /\ fetches' = IF d.do = "request" THEN fetches + 1 ELSE fetches
        /\ UNCHANGED <<config, params, op, tags, batch, invocations>>
        /\ UNCHANGED <<toolVars, ivVars>>

Last == calls[Len(calls)]

\* Time passes while a call is awaited.  While fetch is pending the timer
\* is armed, so the clock cannot pass the timeout without the timer firing;
\* once fetch has resolved the finally clause has cleared the timer.
Tick ==
    /\ pc = "await"
    /\ elapsed < (IF phase = "fetch" THEN timeout ELSE MaxElapsed)
    /\ elapsed' = elapsed + 1
    /\ UNCHANGED <<config, params, pc, op, tags, batch, stage, idx, created, results,
                   addOutcomes, calls, phase, outcome, summary, invocations, fetches>>
    /\ UNCHANGED <<toolVars, ivVars>>

\* setTimeout(() => controller.abort(), this.timeout) fires: fetch rejects
\* with an AbortError
TimerFires ==
    /\ pc = "await" /\ phase = "fetch"
    /\ elapsed >= timeout
    /\ LET r == FetchCatch(AbortError)
       IN  Settle([calls EXCEPT ![Len(calls)] =
                      [@ EXCEPT !.fetch = "aborted", !.res = r]], r)

\* fetch rejects because the network failed
FetchRejects(cause) ==
    /\ pc = "await" /\ phase = "fetch"
    /\ LET r == FetchCatch(NetworkError(cause))
       IN  Settle([calls EXCEPT ![Len(calls)] =
                      [@ EXCEPT !.fetch = "failed", !.cause = cause, !.res = r]], r)

\* fetch resolves with the response head; the finally clause clears the
\* timer and request() awaits response.text()
FetchResolves(status, body) ==
    /\ pc = "await" /\ phase = "fetch"
    /\ calls' = [calls EXCEPT ![Len(calls)] =
                    [@ EXCEPT !.fetch = "response", !.status = status, !.body = body]]
    /\ phase' = "body"
    /\ UNCHANGED <<config, params, pc, op, tags, batch, stage, idx, created, results,
                   addOutcomes, elapsed, outcome, summary, invocations, fetches>>
    /\ UNCHANGED <<toolVars, ivVars>>

\* response.text() resolves and request() classifies the response
BodyRead ==
    /\ pc = "await" /\ phase = "body"
    /\ LET r == HandleResponse(Last.status, Last.body, Last.raw)
       IN  Settle([calls EXCEPT ![Len(calls)] = [@ EXCEPT !.res = r]], r)

\* response.text() rejects: the connection broke while the body was read
BodyReadFails(cause) ==
    /\ pc = "await" /\ phase = "body"
    /\ LET r == BodyReadThrows(cause)
       IN  Settle([calls EXCEPT ![Len(calls)] =
                      [@ EXCEPT !.fetch = "bodyfailed", !.cause = cause, !.res = r]], r)

Next ==
    \/ \E tg \in TagLists : InvokeCreateEvent(tg)
    \/ \E tg \in TagLists : InvokeAddAttribute(tg)
    \/ \E o \in ClientOps \ RawOps : InvokeClientOp(o)
    \/ \E format \in ExportEventsFormats : InvokeExportEvents(format)
    \/ \E format \in ExportHashesFormats : InvokeExportHashes(format)
    \/ \E bt \in Batches : InvokeBulk(bt)
    \/ Tick
    \/ TimerFires
    \/ \E cause \in Causes : FetchRejects(cause)
    \/ \E sb \in Responses : FetchResolves(sb[1], sb[2])
    \/ BodyRead
    \/ \E cause \in Causes : BodyReadFails(cause)

Spec == Init /\ [][Next]_vars

----------------------------------------------------------------------------
(* The tool handlers' state machine.  One handler is invoked; it is        *)
(* suspended at each awaited client method call, and the action that       *)
(* settles the call runs the handler on to its next await or to its end.   *)

TLast == tcalls[Len(tcalls)]

\* tcalls with its last call settled
TReturnedAttrs(attrs) ==
    [tcalls EXCEPT ![Len(tcalls)] = [@ EXCEPT !.settled = "returned", !.attrs = attrs]]
TReturnedEntity(v) ==
    [tcalls EXCEPT ![Len(tcalls)] = [@ EXCEPT !.settled = "returned", !.defined = v.defined]]
TThrew(e) ==
    [tcalls EXCEPT ![Len(tcalls)] = [@ EXCEPT !.settled = "threw", !.err = e]]

\* A mutant of SearchesStarted: the searches of all values are started
\* together
SearchesStartedTogether(vs) ==
    [i \in 1..Len(vs) |-> TCall("searchAttributes", vs[i])]

\* for (const value of valuesToSearch) { const matches = await
\* client.searchAttributes(...) }: entering the loop starts the search of the
\* first value only
SearchesStarted(vs) == <<TCall("searchAttributes", vs[1])>>

\* A handler is invoked and runs up to its first client call
ToolStart(t, args, method, arg) ==
    /\ op = "none"
    /\ tpc = "idle"
    /\ tool' = t
    /\ targs' = args
    /\ tpc' = "await"
    /\ tcalls' = <<TCall(method, arg)>>
    /\ UNCHANGED <<event, valuesToSearch, tidx, relatedMap, tout>>
    /\ UNCHANGED <<clientVars, ivVars>>

\* misp_correlate({ value })
InvokeCorrelate(value) ==
    ToolStart("misp_correlate", [NoArgs EXCEPT !.value = value],
              "searchAttributes", value)

\* client.searchAttributes returns to misp_correlate
CorrelateReturns(attributes) ==
    /\ tpc = "await" /\ tool = "misp_correlate"
    /\ tcalls' = TReturnedAttrs(attributes)
    /\ tout' = CorrelateResult(attributes)
    /\ tpc' = "done"
    /\ UNCHANGED <<tool, targs, event, valuesToSearch, tidx, relatedMap>>
    /\ UNCHANGED <<clientVars, ivVars>>

\* misp_get_related_events({ eventId })
InvokeRelated(eventId) ==
    ToolStart("misp_get_related_events", [NoArgs EXCEPT !.eventId = eventId],
              "getEvent", eventId)

\* client.getEvent returns to misp_get_related_events: the handler seeds
\* relatedMap, selects the values and starts the first search
GetEventReturns(ev) ==
    /\ tpc = "await" /\ tool = "misp_get_related_events"
    /\ TLast.method = "getEvent"
    /\ event' = ev
    /\ UNCHANGED <<tool, targs>>
    /\ UNCHANGED <<clientVars, ivVars>>
    /\ IF ~ev.defined
       THEN /\ tcalls' = TReturnedEntity(ev)
            /\ tout' = ToolCatch(TypeError)
            /\ tpc' = "done"
            /\ UNCHANGED <<valuesToSearch, tidx, relatedMap>>
       ELSE IF NothingToCorrelate(ev.Attribute)
       THEN /\ tcalls' = TReturnedEntity(ev)
            /\ tout' = Payload("nothing_to_correlate")
            /\ tpc' = "done"
            /\ UNCHANGED <<valuesToSearch, tidx, relatedMap>>
       ELSE LET m  == Seed(ev.RelatedEvent, <<>>)
                vs == ValuesToSearch(ev.Attribute)
            IN  /\ relatedMap' = m
                /\ valuesToSearch' = vs
                /\ IF Len(vs) = 0
                   THEN /\ tcalls' = TReturnedEntity(ev)
                        /\ tout' = RelatedResult(m)
                        /\ tpc' = "done"
                        /\ tidx' = 0
                   ELSE /\ tcalls' = TReturnedEntity(ev) \o SearchesStarted(vs)
                        /\ tidx' = 1
                        /\ UNCHANGED <<tout, tpc>>

\* client.searchAttributes returns to the loop of misp_get_related_events
SearchReturns(matches) ==
    /\ tpc = "await" /\ tool = "misp_get_related_events"
    /\ TLast.method = "searchAttributes"
    /\ matches \in (IF Len(event.Attribute) <= MaxEventAttrs
                    THEN MatchLists ELSE {LongMatches})
    /\ LET m == ProcessMatches(matches, valuesToSearch[tidx], targs.eventId, relatedMap)
       IN  /\ relatedMap' = m
           /\ IF tidx < Len(valuesToSearch)
              THEN /\ tcalls' = Append(TReturnedAttrs(matches),
                                       TCall("searchAttributes", valuesToSearch[tidx + 1]))
                   /\ tidx' = tidx + 1
                   /\ UNCHANGED <<tout, tpc>>
              ELSE /\ tcalls' = TReturnedAttrs(matches)
                   /\ tout' = RelatedResult(m)
                   /\ tpc' = "done"
                   /\ UNCHANGED tidx
    /\ UNCHANGED <<tool, targs, event, valuesToSearch>>
    /\ UNCHANGED <<clientVars, ivVars>>

\* misp_add_sighting(params): rejected before any client call when neither
\* attributeId nor value is given
InvokeSighting(attributeId, value) ==
    IF SightingRejected(attributeId, value)
    THEN /\ op = "none"
         /\ tpc = "idle"
         /\ tool' = "misp_add_sighting"
         /\ targs' = [NoArgs EXCEPT !.attributeId = attributeId, !.value = value]
         /\ tout' = [Payload("InvalidRequest") EXCEPT !.isError = TRUE]
         /\ tpc' = "done"
         /\ UNCHANGED <<event, valuesToSearch, tidx, relatedMap, tcalls>>
         /\ UNCHANGED <<clientVars, ivVars>>
    ELSE ToolStart("misp_add_sighting",
                   [NoArgs EXCEPT !.attributeId = attributeId, !.value = value],
                   "addSighting", value)

\* The handlers that await one client call and read the id of what it
\* returned
EntityTools == {"misp_add_sighting", "misp_add_attribute", "misp_get_event"}

ToolMethod(t) ==
    CASE t = "misp_add_sighting"  -> "addSighting"
      [] t = "misp_add_attribute" -> "addAttribute"
      [] OTHER                    -> "getEvent"

InvokeEntityTool(t) ==
    ToolStart(t, [NoArgs EXCEPT !.eventId = SourceId], ToolMethod(t), SourceId)

\* The client call of such a handler returns
EntityReturns(v) ==
    /\ tpc = "await" /\ tool \in EntityTools
    /\ tcalls' = TReturnedEntity(v)
    /\ tout' = EntityResult(v)
    /\ tpc' = "done"
    /\ UNCHANGED <<tool, targs, event, valuesToSearch, tidx, relatedMap>>
    /\ UNCHANGED <<clientVars, ivVars>>

\* The awaited client call throws: the handler's catch clause returns
ClientCallFails(e) ==
    /\ tpc = "await"
    /\ tcalls' = TThrew(e)
    /\ tout' = ToolCatch(e)
    /\ tpc' = "done"
    /\ UNCHANGED <<tool, targs, event, valuesToSearch, tidx, relatedMap>>
    /\ UNCHANGED <<clientVars, ivVars>>

ToolNext ==
    \/ \E value \in {"v1"} : InvokeCorrelate(value)
    \/ \E attributes \in CorrelateAnswers : CorrelateReturns(attributes)
    \/ InvokeRelated(SourceId)
    \/ \E ev \in SourceEvents : GetEventReturns(ev)
    \/ \E matches \in MatchLists \cup {LongMatches} : SearchReturns(matches)
    \/ \E a \in {Undef, "", "7"}, v \in {Undef, "", "v1"} : InvokeSighting(a, v)
    \/ \E t \in EntityTools \ {"misp_add_sighting"} : InvokeEntityTool(t)
    \/ \E v \in Entities : EntityReturns(v)
    \/ \E e \in ClientErrors : ClientCallFails(e)

SpecTools == Init /\ [][ToolNext]_vars

----------------------------------------------------------------------------
(* searchEvents and searchAttributes with every combination of their       *)
(* parameters, up to the await of request()                                *)

InvokeSearchEvents(p) ==
    Start("searchEvents", p, <<>>, <<>>, "/events/restSearch", SearchEventsBody(p),
          FALSE, "single", 0)

InvokeSearchAttributes(p) ==
    Start("searchAttributes", p, <<>>, <<>>, "/attributes/restSearch",
          SearchAttributesBody(p), FALSE, "single", 0)

BuildNext ==
    \/ \E p \in SearchEventsParams : InvokeSearchEvents(p)
    \/ \E p \in SearchAttributesParams : InvokeSearchAttributes(p)

SpecBuild == Init /\ [][BuildNext]_vars

----------------------------------------------------------------------------
(* The server handling one invocation, of a client method or of a tool     *)
(* handler                                                                 *)

ServerNext == Next \/ ToolNext

SpecServer == Init /\ [][ServerNext]_vars

----------------------------------------------------------------------------
(* Several tool invocations on one server.  The handlers are async         *)
(* functions on one thread: an invocation runs until its next await, and   *)
(* while it waits for its client call the other invocations may run.       *)

Invocations == 1..MaxConcurrent

\* The source events and search answers given to the interleaved
\* invocations
IvEvents ==
    {[defined |-> TRUE, Attribute |-> <<>>, RelatedEvent |-> <<>>],
     [defined |-> TRUE, Attribute |-> <<[value |-> "v1", to_ids |-> TRUE]>>,
      RelatedEvent |-> <<"44">>],
     [defined |-> TRUE,
      Attribute |-> <<[value |-> "v1", to_ids |-> TRUE], [value |-> "v2", to_ids |-> TRUE]>>,
      RelatedEvent |-> <<>>]}
IvMatches == {Matches(<<"44">>), Matches(<<"42", "43">>)}
IvAnswers == {WithIds(<<>>),
              WithIds(<<[event_id |-> "43", related |-> Present(<<Rel1>>)],
                        [event_id |-> "43", related |-> Absent]>>)}
IvErrors  == {FetchCatch(AbortError).err}

\* A mutant of MapSlot: relatedMap is one Map shared by all invocations
MapSlotShared(i) == 1

\* const relatedMap = new Map() inside the handler: each invocation has its
\* own Map
MapSlot(i) == i

IvSettled(r, field, v) ==
    [r.calls EXCEPT ![Len(r.calls)] = [@ EXCEPT !.settled = "returned", ![field] = v]]

\* Invocation i of misp_get_related_events starts and awaits client.getEvent
IvInvokeRelated(i, eventId) ==
    /\ inv[i].pc = "idle"
    /\ inv' = [inv EXCEPT ![i] = [@ EXCEPT !.tool = "misp_get_related_events",
                                           !.pc = "await", !.eventId = eventId,
                                           !.calls = <<TCall("getEvent", eventId)>>]]
    /\ UNCHANGED maps
    /\ UNCHANGED <<clientVars, toolVars>>

\* Invocation i of misp_correlate starts and awaits client.searchAttributes
IvInvokeCorrelate(i, value) ==
    /\ inv[i].pc = "idle"
    /\ inv' = [inv EXCEPT ![i] = [@ EXCEPT !.tool = "misp_correlate", !.pc = "await",
                                           !.calls = <<TCall("searchAttributes", value)>>]]
    /\ UNCHANGED maps
    /\ UNCHANGED <<clientVars, toolVars>>

\* client.searchAttributes returns to invocation i of misp_correlate
IvCorrelateReturns(i, attributes) ==
    /\ inv[i].pc = "await" /\ inv[i].tool = "misp_correlate"
    /\ inv' = [inv EXCEPT ![i] = [@ EXCEPT !.pc = "done",
                                           !.calls = IvSettled(inv[i], "attrs", attributes),
                                           !.out = CorrelateResult(attributes)]]
    /\ UNCHANGED maps
    /\ UNCHANGED <<clientVars, toolVars>>

\* client.getEvent returns to invocation i of misp_get_related_events
IvGetEventReturns(i, ev) ==
    LET r     == inv[i]
        log   == IvSettled(r, "defined", ev.defined)
        m     == Seed(ev.RelatedEvent, <<>>)
        vs    == ValuesToSearch(ev.Attribute)
        ended == [r EXCEPT !.pc = "done", !.event = ev, !.calls = log]
    IN  /\ r.pc = "await" /\ r.tool = "misp_get_related_events"
        /\ r.calls[Len(r.calls)].method = "getEvent"
        /\ UNCHANGED <<clientVars, toolVars>>
        /\ IF NothingToCorrelate(ev.Attribute)
           THEN /\ inv' = [inv EXCEPT ![i] =
                              [ended EXCEPT !.out = Payload("nothing_to_correlate")]]
                /\ UNCHANGED maps
           ELSE /\ maps' = [maps EXCEPT ![MapSlot(i)] = m]
                /\ inv' = [inv EXCEPT ![i] =
                      IF Len(vs) = 0
                      THEN [ended EXCEPT !.out = RelatedResult(m)]
                      ELSE [r EXCEPT !.event = ev, !.values = vs, !.idx = 1,
                                     !.calls = log \o SearchesStarted(vs)]]

\* client.searchAttributes returns to the loop of invocation i
IvSearchReturns(i, matches) ==
    LET r   == inv[i]
        log == IvSettled(r, "attrs", matches)
        m   == ProcessMatches(matches, r.values[r.idx], r.eventId, maps[MapSlot(i)])
    IN  /\ r.pc = "await" /\ r.tool = "misp_get_related_events"
        /\ r.calls[Len(r.calls)].method = "searchAttributes"
        /\ maps' = [maps EXCEPT ![MapSlot(i)] = m]
        /\ inv' = [inv EXCEPT ![i] =
              IF r.idx < Len(r.values)
              THEN [r EXCEPT !.idx = r.idx + 1,
                             !.calls = Append(log, TCall("searchAttributes",
                                                         r.values[r.idx + 1]))]
              ELSE [r EXCEPT !.pc = "done", !.calls = log, !.out = RelatedResult(m)]]
        /\ UNCHANGED <<clientVars, toolVars>>

\* The client call invocation i waits for throws
IvCallFails(i, e) ==
    /\ inv[i].pc = "await"
    /\ inv' = [inv EXCEPT ![i] =
          [@ EXCEPT !.pc = "done",
                    !.calls = [@ EXCEPT ![Len(@)] =
                                  [@ EXCEPT !.settled = "threw", !.err = e]],
                    !.out = ToolCatch(e)]]
    /\ UNCHANGED maps
    /\ UNCHANGED <<clientVars, toolVars>>

IvNext ==
    \E i \in Invocations :
        \/ \E eventId \in {"42", "43"} : IvInvokeRelated(i, eventId)
        \/ IvInvokeCorrelate(i, "v1")
        \/ \E attributes \in IvAnswers : IvCorrelateReturns(i, attributes)
        \/ \E ev \in IvEvents : IvGetEventReturns(i, ev)
        \/ \E matches \in IvMatches : IvSearchReturns(i, matches)
        \/ \E e \in IvErrors : IvCallFails(i, e)

SpecInterleaved == Init /\ [][IvNext]_vars

----------------------------------------------------------------------------
(* Properties *)

Done == pc = "done"

Settled(c) == c.res # Pending

\* The number of items of the bulk loop whose add-attribute call failed (the
\* catch clause of the item ran)
FailedAdds == Cardinality({i \in 1..Len(addOutcomes) : addOutcomes[i]})

\* C1: for a batch of N attributes of which exactly k add-attribute calls
\* fail, misp_add_attributes_bulk returns total = N, succeeded = N - k and
\* failed = k, with the per-item results in input order.
C1_BulkCounts ==
    (Done /\ op = "misp_add_attributes_bulk") =>
        /\ summary.total = Len(batch)
        /\ summary.succeeded = Len(batch) - FailedAdds
        /\ summary.failed = FailedAdds
        /\ Len(results) = Len(batch)
        /\ \A i \in 1..Len(results) :
              results[i].value = batch[i].value /\ results[i].type = batch[i].type

\* C2: misp_add_attributes_bulk issues exactly one add-attribute call per
\* item, one after the other in input order; a failed call for item i does
\* not stop the calls for the later items and is recorded in the i-th result
\* instead of becoming the tool's own error.
C2_BulkOneCallPerItem ==
    op = "misp_add_attributes_bulk" =>
        /\ Len(calls) <= Len(batch)
        /\ \A i \in 1..Len(calls) :
              /\ calls[i].kind = "/attributes/add"
              /\ calls[i].arg = batch[i].value
              /\ i < Len(calls) => Settled(calls[i])
        /\ Done =>
              /\ Len(calls) = Len(batch)
              /\ Len(results) = Len(batch)
              /\ outcome.status = "returned" /\ ~outcome.isError
              /\ \A i \in 1..Len(batch) :
                    addOutcomes[i] =>
                        /\ results[i].error.kind # "none"
                        /\ results[i].id = Undef
                        /\ ~calls[i].res.ok => results[i].error = calls[i].res.err

\* C2 witness: a finished batch of two whose first call failed and whose
\* second call was still made and succeeded
C2_Witness ==
    /\ Done /\ op = "misp_add_attributes_bulk"
    /\ Len(batch) = 2 /\ Len(calls) = 2
    /\ addOutcomes[1] /\ ~addOutcomes[2]
    /\ results[1].error.kind = "Forbidden"
    /\ Truthy(results[2].id)

\* A call succeeded: request() returned, and where the caller goes on to
\* use the created or fetched entity, the response carried it with its id
CallSucceeded(c) ==
    /\ c.res.ok
    /\ c.kind \in {"/events/add", "/events/view", "/attributes/add"} =>
          (c.res.data.hasEntity /\ Truthy(c.res.data.id))

AllCallsSucceeded == \A i \in 1..Len(calls) : CallSucceeded(calls[i])

\* The positions in `calls` of the calls to an endpoint
CallsTo(kind) == {i \in 1..Len(calls) : calls[i].kind = kind}

\* C3: when every remote call succeeds, createEvent with tags t1..tn issues
\* one create call, then one tag call per tag in list order, then exactly one
\* refetch of the created event; with no tags it issues only the create call
\* and returns the create response without a refetch.
C3_CreateEventCallSequence ==
    (Done /\ op = "createEvent" /\ AllCallsSucceeded) =>
        /\ calls[1].kind = "/events/add"
        /\ outcome.status = "returned"
        /\ IF Len(tags) = 0
           THEN /\ Len(calls) = 1
                /\ outcome.value.src = 1
           ELSE /\ Len(calls) = Len(tags) + 2
                /\ \A i \in 1..Len(tags) :
                      /\ calls[i + 1].kind = "/events/addTag"
                      /\ calls[i + 1].arg = tags[i]
                /\ calls[Len(calls)].kind = "/events/view"
                /\ calls[Len(calls)].arg = calls[1].res.data.id
                /\ outcome.value.src = Len(calls)

\* C3 witness: the two-tag scenario has run to its end with every call
\* succeeding: create, tag, tag, refetch
C3_Witness ==
    /\ Done /\ op = "createEvent" /\ AllCallsSucceeded
    /\ tags = <<"tlp:white", "tlp:green">>
    /\ Len(calls) = 4
    /\ outcome.status = "returned" /\ outcome.value.type = "entity"

\* C4: in createEvent with tags t1..tn, when the tag call for some ti fails
\* the tag calls for the later tags are still issued, and after all n tag
\* calls the event is re-fetched exactly once and the re-fetched event is
\* what createEvent returns.
C4_TagFailureContinues ==
    (/\ Done /\ op = "createEvent"
     /\ \E i \in CallsTo("/events/addTag") : ~calls[i].res.ok) =>
        /\ Cardinality(CallsTo("/events/addTag")) = Len(tags)
        /\ Cardinality(CallsTo("/events/view")) = 1
        /\ calls[Len(calls)].kind = "/events/view"
        /\ calls[Len(calls)].res.ok =>
              (outcome.status = "returned" /\ outcome.value.src = Len(calls))

\* C5: addAttribute with a non-empty tag list issues the create call, one
\* tag call per tag in list order, and then re-fetches the created attribute
\* exactly once, returning the re-fetched attribute.
C5_AddAttributeRefetch ==
    (Done /\ op = "addAttribute" /\ Len(tags) > 0 /\ AllCallsSucceeded) =>
        /\ calls[1].kind = "/attributes/add"
        /\ Len(calls) = Len(tags) + 2
        /\ \A i \in 1..Len(tags) :
              /\ calls[i + 1].kind = "/attributes/addTag"
              /\ calls[i + 1].arg = tags[i]
        /\ calls[Len(calls)].kind \notin {"/attributes/add", "/attributes/addTag"}
        /\ outcome.value.src = Len(calls)

C7_NoCallPendingPastTimeout ==
    pc = "await" => elapsed <= timeout

\* The status table and the detail rule as C8 states them
C8_Kind(status) ==
    CASE status = 401 -> "Unauthorized"
      [] status = 403 -> "Forbidden"
      [] status = 404 -> "NotFound"
      [] status = 405 -> "MethodNotAllowed"
      [] OTHER        -> "RemoteError"

C8_Detail(body) ==
    CASE body = BodyMessage -> "denied"
      [] body = BodyErrors  -> "bad value"
      [] OTHER              -> body

\* C8: for every operation a non-success status is classified by the fixed
\* table (401 Unauthorized, 403 Forbidden, 404 NotFound, 405
\* MethodNotAllowed, anything else RemoteError with the numeric status),
\* whatever the body is, and the detail is the message taken from the JSON
\* body or else the raw body text.
C8_StatusTable ==
    \A i \in 1..Len(calls) :
        (calls[i].fetch = "response" /\ Settled(calls[i])
           /\ calls[i].status \notin 200..299) =>
            /\ ~calls[i].res.ok
            /\ calls[i].res.err.kind = C8_Kind(calls[i].status)
            /\ calls[i].res.err.kind = "RemoteError" =>
                  calls[i].res.err.status = calls[i].status
            /\ calls[i].res.err.detail = C8_Detail(calls[i].body)

\* C8 witness: a 405 answer with a non-JSON body has been classified, in an
\* operation that went on after it
C8_Witness ==
    /\ Done /\ op = "misp_add_attributes_bulk" /\ Len(calls) = 2
    /\ calls[1].status = 405 /\ calls[1].body = BodyHtml
    /\ calls[1].res.err.kind = "MethodNotAllowed"
    /\ calls[2].status = 503
    /\ calls[2].res.err.kind = "RemoteError"

\* The bodies that are not JSON
NonJsonBodies == {BodyEmpty, BodyHtml}

\* C9: for every operation other than the text exports, a 2xx response
\* whose body is not valid JSON makes the call fail with MalformedResponse;
\* the operation never returns a success value (such as an empty list).
C9_NonJsonIsMalformed ==
    /\ \A i \in 1..Len(calls) :
          (calls[i].fetch = "response" /\ Settled(calls[i]) /\ ~calls[i].raw
             /\ calls[i].status \in 200..299 /\ calls[i].body \in NonJsonBodies) =>
              /\ ~calls[i].res.ok
              /\ calls[i].res.err.kind = "MalformedResponse"
    /\ (Done /\ op \notin ToolOps /\ calls # <<>>
          /\ ~Last.raw /\ Last.fetch = "response"
          /\ Last.status \in 200..299 /\ Last.body \in NonJsonBodies) =>
          /\ outcome.status = "threw"
          /\ outcome.err.kind = "MalformedResponse"

\* C9 witness: searchEvents has ended on a 200 answer holding an HTML page
C9_Witness ==
    /\ Done /\ op = "searchEvents"
    /\ Last.fetch = "response" /\ Last.status = 200 /\ Last.body = BodyHtml
    /\ outcome.status = "threw"

ListOps == {"searchEvents", "searchAttributes", "listTags", "listTaxonomies"}

\* C10: a 2xx response whose body is valid JSON but lacks the structure the
\* operation expects makes searchEvents, searchAttributes, listTags and
\* listTaxonomies fail with MalformedResponse; they never turn such a body
\* into an empty result.
C10_UnexpectedStructureIsMalformed ==
    (Done /\ op \in ListOps /\ Last.res.ok /\ ~Last.res.data.hasList) =>
        /\ outcome.status = "threw"
        /\ outcome.err.kind = "MalformedResponse"

\* The path the invoked single-call method requests
PathOfCall ==
    CASE op = "exportEvents" -> FormatEndpoints(params.format.v)
      [] op = "exportHashes" -> "/events/hids/" \o params.format.v \o "/download"
      [] OTHER               -> Endpoint(op)

\* One request has been issued for each invocation, none twice
OneRequestPerInvocation ==
    /\ Len(calls) = 1
    /\ calls[1].kind = PathOfCall
    /\ fetches = invocations
    /\ Done => (Settled(calls[1]) /\ outcome.status \in {"returned", "threw"})

\* C11 as stated: every single-call client method issues exactly one HTTP
\* request per invocation whatever the outcome: a failed or timed-out
\* request is not sent again, and a repeated invocation with the same
\* arguments issues a new request instead of reusing the earlier response.
C11_OneRequestPerInvocation ==
    op \in ClientOps => OneRequestPerInvocation

\* C11 amended: an export that is rejected for its format issues no
\* request; every other invocation of a single-call client method issues
\* exactly one HTTP request whatever the outcome, never sends a failed or
\* timed-out request again, and issues a new request when it is repeated
\* with the same arguments.
C11_OneRequestUnlessRejected ==
    op \in ClientOps =>
        IF Done /\ outcome.err.kind = "UnsupportedFormat"
        THEN calls = <<>> /\ fetches = 0 /\ outcome.status = "threw"
        ELSE OneRequestPerInvocation

\* C11 witness: getEvent has been invoked a second time with the same
\* arguments, and the second invocation ended in a timeout
C11_Witness ==
    /\ Done /\ op = "getEvent"
    /\ invocations = 2 /\ fetches = 2
    /\ Last.fetch = "aborted" /\ outcome.status = "threw"

----------------------------------------------------------------------------
(* Properties of the tool handlers *)

TDone == tpc = "done"

\* The attributes the search of misp_correlate returned
Found == tcalls[1].attrs

\* misp_correlate has ended after a search that returned attributes
CorrelateDone ==
    /\ TDone /\ tool = "misp_correlate"
    /\ tcalls[1].settled = "returned" /\ Len(Found) > 0

\* The ids of the attributes of event eid, in the order of the response
IdsOfEvent(attrs, eid) ==
    LET OfEvent(a) == a.event_id = eid
        sel        == SelectSeq(attrs, OfEvent)
    IN  [i \in 1..Len(sel) |-> sel[i].id]

\* C12: in the result of misp_correlate, total_events is the number of
\* distinct event ids among the returned attributes, total_attributes is the
\* length of the returned list, found_in_events has exactly one group per
\* distinct event id, and each group holds the attributes of its event in
\* the order they have in the response.
C12_CorrelateGroups ==
    CorrelateDone =>
        LET groups == tout.found_in_events
        IN  /\ tout.kind = "result" /\ ~tout.isError
            /\ tout.total_events =
                  Cardinality({Found[i].event_id : i \in 1..Len(Found)})
            /\ tout.total_attributes = Len(Found)
            /\ Len(groups) = tout.total_events
            /\ \A i, j \in 1..Len(groups) :
                  groups[i].event_id = groups[j].event_id => i = j
            /\ \A i \in 1..Len(groups) :
                  groups[i].attributes = IdsOfEvent(Found, groups[i].event_id)

\* C12 witness: three attributes of two events were returned, the
\* attributes of the first event not next to each other
C12_Witness ==
    /\ CorrelateDone
    /\ Len(Found) = 3
    /\ Found[1].event_id = Found[3].event_id
    /\ Found[1].event_id # Found[2].event_id
    /\ tout.total_events = 2

\* The RelatedAttribute items of the first n attributes, one after the other
RECURSIVE Concatenation(_, _)
Concatenation(attrs, n) ==
    IF n = 0
    THEN <<>>
    ELSE LET rels == IF attrs[n].related.present THEN attrs[n].related.items ELSE <<>>
         IN  Concatenation(attrs, n - 1)
             \o [i \in 1..Len(rels) |->
                    [value |-> rels[i].value, type |-> rels[i].type,
                     event_id |-> rels[i].event_id]]

\* C13: the correlations of the result of misp_correlate are the
\* (value, type, event_id) tuples of the returned attributes'
\* related-attribute lists, concatenated in response order with repeats
\* kept; the field is absent exactly when the concatenation is empty.
C13_Correlations ==
    CorrelateDone =>
        LET c == Concatenation(Found, Len(Found))
        IN  /\ tout.correlations.present <=> c # <<>>
            /\ tout.correlations.items = c

\* C13 witness: two returned attributes carry the same related attribute,
\* and the result lists it twice
C13_Witness ==
    /\ CorrelateDone
    /\ Len(Found) = 2
    /\ Found[1].related = Present(<<Rel1>>)
    /\ Found[2].related = Present(<<Rel1, Rel2>>)
    /\ tout.correlations.present
    /\ Len(tout.correlations.items) = 3

RelatedTool == tool = "misp_get_related_events"

\* misp_get_related_events has ended with its list of candidates
RelatedResultDone == RelatedTool /\ TDone /\ tout.kind = "result"

\* The number of flagged attributes among the first j, and the position of
\* the i-th flagged attribute
FlaggedUpTo(attrs, j) == Cardinality({k \in 1..j : attrs[k].to_ids})
NthFlagged(attrs, i) ==
    CHOOSE j \in 1..Len(attrs) : attrs[j].to_ids /\ FlaggedUpTo(attrs, j) = i

\* C14: misp_get_related_events issues at most 20 attribute searches; the
\* i-th search is for the value of the i-th to_ids-flagged attribute of the
\* source event, so the values searched are those of the first 20 flagged
\* attributes in order, one search per selected attribute.
C14_SearchCap ==
    RelatedTool =>
        LET attrs   == event.Attribute
            flagged == FlaggedUpTo(attrs, Len(attrs))
        IN  /\ Len(tcalls) - 1 <= SearchCap
            /\ \A k \in 2..Len(tcalls) :
                  /\ tcalls[k].method = "searchAttributes"
                  /\ k - 1 <= flagged
                  /\ tcalls[k].arg = attrs[NthFlagged(attrs, k - 1)].value
            /\ RelatedResultDone =>
                  Len(tcalls) - 1 = IF flagged < SearchCap THEN flagged ELSE SearchCap

\* C14 witness: the source event has more than 20 flagged attributes, its
\* second attribute is not flagged, and the handler ended after 20 searches
C14_Witness ==
    /\ RelatedResultDone
    /\ FlaggedUpTo(event.Attribute, Len(event.Attribute)) > SearchCap
    /\ ~event.Attribute[2].to_ids
    /\ Len(tcalls) = SearchCap + 1

\* The events of the attributes the searches returned that are not the
\* source event, in the order they were returned up to call n
RECURSIVE MatchedEvents(_)
MatchedEvents(n) ==
    IF n <= 1
    THEN <<>>
    ELSE LET Other(a) == a.event_id # targs.eventId
             sel      == SelectSeq(tcalls[n].attrs, Other)
         IN  MatchedEvents(n - 1) \o [i \in 1..Len(sel) |-> sel[i].event_id]

\* The order in which the events became candidates: the back-references as
\* listed, then the matches of the searches
Discovery == event.RelatedEvent \o MatchedEvents(Len(tcalls))

FirstSeen(eid) ==
    CHOOSE i \in 1..Len(Discovery) :
        Discovery[i] = eid /\ \A j \in 1..(i - 1) : Discovery[j] # eid

\* C15: the candidates are returned by descending correlation_count, and
\* candidates of equal count in first-seen order (back-references in their
\* listed order, then events in the order the searches discovered them).
C15_SortedStable ==
    RelatedResultDone =>
        LET r == tout.related_events
        IN  \A i, j \in 1..Len(r) :
                i < j =>
                    /\ r[i].correlation_count >= r[j].correlation_count
                    /\ r[i].correlation_count = r[j].correlation_count =>
                          FirstSeen(r[i].event_id) < FirstSeen(r[j].event_id)

\* C15 witness: the candidate seen first has the lowest count and comes
\* last, after two candidates of equal count
C15_Witness ==
    /\ RelatedResultDone
    /\ Len(tout.related_events) = 3
    /\ tout.related_events[1].correlation_count = tout.related_events[2].correlation_count
    /\ tout.related_events[2].correlation_count > tout.related_events[3].correlation_count
    /\ FirstSeen(tout.related_events[3].event_id) = 1

\* The returned attributes of event eid over all searches, and the searched
\* values that returned one
Occurrences(eid) ==
    UNION {{<<k, i>> : i \in {i \in 1..Len(tcalls[k].attrs) :
                                  tcalls[k].attrs[i].event_id = eid}} :
           k \in 2..Len(tcalls)}
MatchedValues(eid) == {tcalls[oc[1]].arg : oc \in Occurrences(eid)}

\* C16: a candidate's correlation_count is the number of returned
\* attributes of that event over all searches (none for the source event),
\* its overlapping_iocs is the duplicate-free list of the searched values
\* that returned one, and so is never longer than the count.
C16_CountsAndOverlap ==
    RelatedResultDone =>
        \A n \in 1..Len(tout.related_events) :
            LET e    == tout.related_events[n]
                iocs == e.overlapping_iocs
                occ  == IF e.event_id = targs.eventId THEN {} ELSE Occurrences(e.event_id)
            IN  /\ e.correlation_count = Cardinality(occ)
                /\ \A i, j \in 1..Len(iocs) : iocs[i] = iocs[j] => i = j
                /\ {iocs[i] : i \in 1..Len(iocs)} = {tcalls[oc[1]].arg : oc \in occ}
                /\ Len(iocs) <= e.correlation_count

\* C16 witness: one search returned two attributes of the same event, whose
\* candidate has count 2 and one overlapping value
C16_Witness ==
    /\ RelatedResultDone
    /\ Len(tcalls) = 2
    /\ Len(tcalls[2].attrs) = 2
    /\ tcalls[2].attrs[1].event_id = tcalls[2].attrs[2].event_id
    /\ Len(tout.related_events) = 1
    /\ tout.related_events[1].correlation_count = 2
    /\ Len(tout.related_events[1].overlapping_iocs) = 1

\* C17: when the source event has no attributes, misp_get_related_events
\* returns the explicit nothing-to-correlate result and makes no client
\* call after the single event fetch.
C17_NoAttributes ==
    (RelatedTool /\ tcalls[1].settled = "returned" /\ event.defined
        /\ Len(event.Attribute) = 0) =>
        /\ TDone
        /\ tout.kind = "nothing_to_correlate" /\ ~tout.isError
        /\ Len(tcalls) = 1 /\ tcalls[1].method = "getEvent"

\* C17 witness: the event fetch returned an event without attributes and
\* without back-references, and the handler has ended
C17_Witness ==
    /\ RelatedTool /\ TDone
    /\ tcalls[1].settled = "returned" /\ event.defined
    /\ event.Attribute = <<>> /\ event.RelatedEvent = <<>>
    /\ tout.kind = "nothing_to_correlate"

\* Whether no search returned an attribute of event eid that counts for it
Unmatched(eid) == eid = targs.eventId \/ Occurrences(eid) = {}

\* Every back-referenced event is among the returned candidates, with count
\* 0 and no overlapping value when no search matched it
BackRefsAreCandidates ==
    \A b \in {event.RelatedEvent[i] : i \in 1..Len(event.RelatedEvent)} :
        \E n \in 1..Len(tout.related_events) :
            LET e == tout.related_events[n]
            IN  /\ e.event_id = b
                /\ Unmatched(b) =>
                      e.correlation_count = 0 /\ e.overlapping_iocs = <<>>

\* C18 as stated: whenever misp_get_related_events returns without an
\* error, every event of the source event's back-references is a candidate
\* of the result.
C18_BackRefsInEveryResult ==
    (RelatedTool /\ TDone /\ ~tout.isError) => BackRefsAreCandidates

\* C18 amended: when the source event has at least one attribute and the
\* handler returns its list of candidates, every back-referenced event is a
\* candidate, with correlation_count 0 and empty overlapping_iocs when no
\* search matched it.  (For an event without attributes the handler returns
\* before it reads the back-references.)
C18_BackRefsAreSeeds ==
    RelatedResultDone =>
        /\ Len(event.Attribute) > 0
        /\ BackRefsAreCandidates

\* C18 witness: of two back-referenced events one was matched by a search
\* and the other was not, and both are candidates
C18_Witness ==
    /\ RelatedResultDone
    /\ event.RelatedEvent = <<"44", "43">>
    /\ Len(tcalls) = 2
    /\ ~Unmatched("43") /\ Unmatched("44")
    /\ Len(tout.related_events) = 2
    /\ tout.related_events[2].event_id = "44"
    /\ tout.related_events[2].correlation_count = 0

\* C19: a sighting request with neither an attributeId nor a value is
\* rejected with the InvalidRequest error payload and no client call is made.
C19_SightingNeedsTarget ==
    (tool = "misp_add_sighting" /\ ~Truthy(targs.attributeId) /\ ~Truthy(targs.value)) =>
        /\ TDone
        /\ tout.status = "returned" /\ tout.isError /\ tout.kind = "InvalidRequest"
        /\ tcalls = <<>>

\* C19 witness: misp_add_sighting was invoked with an empty attributeId and
\* no value
C19_Witness ==
    /\ tool = "misp_add_sighting" /\ TDone
    /\ targs.attributeId = "" /\ targs.value = Undef
    /\ tout.kind = "InvalidRequest"

\* C20: no tool handler throws.  When a client call fails (classified
\* remote failure, timeout, transport failure, malformed response) or the
\* handler raises while it reshapes the response, the handler returns a
\* payload with isError = true that carries the error.
C20_HandlersNeverThrow ==
    /\ tout.status # "threw"
    /\ (TDone /\ Len(tcalls) > 0) =>
          /\ tout.status = "returned"
          /\ TLast.settled = "threw" =>
                tout.isError /\ tout.kind = "error" /\ tout.err = TLast.err
          /\ (TLast.settled = "returned" /\ TLast.method # "searchAttributes"
                /\ ~TLast.defined) =>
                tout.isError /\ tout.kind = "error" /\ tout.err = TypeError

\* C20 witness: the third search of misp_get_related_events timed out and
\* the handler returned an error payload
C20_Witness ==
    /\ RelatedTool /\ TDone
    /\ Len(tcalls) = 4
    /\ TLast.settled = "threw" /\ TLast.err.kind = "Timeout"
    /\ tout.isError

----------------------------------------------------------------------------
(* Properties of the request construction *)

\* The key of the body a parameter is sent under
BodyKeyOf(f) ==
    CASE f = "dateFrom" -> "from"
      [] f = "dateTo"   -> "to"
      [] OTHER          -> f

\* The parameters of the two search methods
ParamsOf(o) ==
    IF o = "searchEvents"
    THEN {"value", "type", "category", "tags", "eventid", "org", "dateFrom",
          "dateTo", "last", "published", "limit", "page"}
    ELSE {"value", "type", "category", "tags", "to_ids", "includeCorrelations",
          "last", "limit"}

\* C21: in the body searchEvents and searchAttributes send, a parameter the
\* caller left unset has no key at all (so no null, empty or default value
\* is sent for it), and a boolean filter that is set (published, to_ids) is
\* sent as 1 for true and 0 for false.
C21_UnsetParametersOmitted ==
    (op \in {"searchEvents", "searchAttributes"} /\ Len(calls) = 1) =>
        LET body == calls[1].arg
        IN  /\ \A f \in ParamsOf(op) :
                  ~params[f].set => ~body[BodyKeyOf(f)].present
            /\ \A f \in ParamsOf(op) \cap {"published", "to_ids"} :
                  params[f].set =>
                      body[f] = Key(IF params[f].v THEN 1 ELSE 0)

\* C22: every request the client hands to fetch (the create call, the tag
\* calls, the refetch, the text exports and every other call) carries the
\* configured credential unchanged in the Authorization header and declares
\* Accept and Content-Type as application/json.
C22_HeadersOnEveryRequest ==
    \A i \in 1..Len(calls) :
        /\ calls[i].headers.Authorization = Config.apiKey
        /\ calls[i].headers.Accept = "application/json"
        /\ calls[i].headers.ContentType = "application/json"

\* C22 witness: createEvent with one tag has issued its create call, its
\* tag call and its refetch
C22_Witness ==
    /\ op = "createEvent"
    /\ Len(calls) = 3
    /\ calls[2].kind = "/events/addTag"
    /\ calls[3].kind = "/events/view"

\* C23: exportEvents called with a format outside {csv, stix, suricata,
\* snort, text, rpz} and exportHashes called with a format outside {md5,
\* sha1, sha256} fail with an unsupported-format error, and no HTTP request
\* has been issued when they fail.
C23_UnsupportedFormatRejected ==
    (\/ op = "exportEvents"
        /\ params.format.v \notin {"csv", "stix", "suricata", "snort", "text", "rpz"}
     \/ op = "exportHashes"
        /\ params.format.v \notin {"md5", "sha1", "sha256"}) =>
        /\ Done
        /\ outcome.status = "threw" /\ outcome.err.kind = "UnsupportedFormat"
        /\ calls = <<>> /\ fetches = 0

----------------------------------------------------------------------------
(* Properties of the sequencing of calls *)

\* The calls that have been started and have not completed
InFlight  == {i \in 1..Len(calls) : ~Settled(calls[i])}
TInFlight == {i \in 1..Len(tcalls) : tcalls[i].settled = "pending"}

\* C24: within one invocation at most one remote call is in flight at any
\* time: in createEvent, in addAttribute, in the bulk add loop and in the
\* searches of misp_get_related_events, a call is started only after every
\* earlier call has completed, with success or failure.
C24_OneCallInFlight ==
    /\ Cardinality(InFlight) + Cardinality(TInFlight) <= 1
    /\ \A i \in InFlight : i = Len(calls)
    /\ \A i \in TInFlight : i = Len(tcalls)

\* C24 witness: misp_get_related_events waits for its second search after
\* the event fetch and the first search have returned
C24_Witness ==
    /\ RelatedTool
    /\ Len(tcalls) = 3
    /\ tcalls[2].settled = "returned"
    /\ tcalls[3].settled = "pending"

----------------------------------------------------------------------------
(* Properties of interleaved invocations *)

\* What the handler of invocation record r does when it runs alone against
\* the answers r has received: the candidate map after its first n calls,
\* the requests it issues, and its result
RECURSIVE SoloMap(_, _)
SoloMap(r, n) ==
    IF n <= 1
    THEN Seed(r.event.RelatedEvent, <<>>)
    ELSE ProcessMatches(r.calls[n].attrs, r.calls[n].arg, r.eventId, SoloMap(r, n - 1))

SoloRequests(r) ==
    IF r.tool = "misp_correlate"
    THEN <<"v1">>
    ELSE <<r.eventId>> \o ValuesToSearch(r.event.Attribute)

SoloResult(r) ==
    LET last == r.calls[Len(r.calls)]
    IN  IF last.settled = "threw" THEN ToolCatch(last.err)
        ELSE IF r.tool = "misp_correlate" THEN CorrelateResult(r.calls[1].attrs)
        ELSE IF NothingToCorrelate(r.event.Attribute)
        THEN Payload("nothing_to_correlate")
        ELSE RelatedResult(SoloMap(r, Len(r.calls)))

\* C25: when tool invocations interleave at their awaits, each invocation
\* issues the requests and returns the result it would have issued and
\* returned alone against the same answers, and the client configuration
\* stays what the constructor stored.
C25_InterleavingIsInvisible ==
    /\ config = Config
    /\ \A i \in Invocations :
          LET r == inv[i]
          IN  r.tool # "none" =>
                /\ Len(r.calls) <= Len(SoloRequests(r))
                /\ \A k \in 1..Len(r.calls) : r.calls[k].arg = SoloRequests(r)[k]
                /\ r.pc = "done" =>
                      /\ r.out = SoloResult(r)
                      /\ r.calls[Len(r.calls)].settled = "returned" =>
                            Len(r.calls) = Len(SoloRequests(r))
                               \/ NothingToCorrelate(r.event.Attribute)

\* C25 witness: invocation 1 ended with two candidates after its second
\* search, which it was waiting for while invocation 2 had its first search
\* answered; invocation 2 is still waiting for its second search
C25_Witness ==
    /\ inv[1].tool = "misp_get_related_events" /\ inv[1].pc = "done"
    /\ Len(inv[1].calls) = 3 /\ inv[1].out.total_related = 2
    /\ inv[2].tool = "misp_get_related_events" /\ inv[2].pc = "await"
    /\ Len(inv[2].calls) = 3
    /\ Len(maps[2]) = 1

----------------------------------------------------------------------------
(* Further properties of the client methods and of the bulk tool *)

\* The create call and the tag call of the two methods that tag what they
\* created
CreatePath == IF op = "createEvent" THEN "/events/add" ELSE "/attributes/add"
TagPath    == IF op = "createEvent" THEN "/events/addTag" ELSE "/attributes/addTag"

\* C26: when a tag call fails during createEvent or addAttribute, no delete
\* or other compensating call is issued: the calls of the operation are the
\* create call and the tag calls up to the failed one, which is the last.
C26_NoRollback ==
    (/\ op \in {"createEvent", "addAttribute"}
     /\ \E i \in 2..Len(calls) :
            calls[i].kind = TagPath /\ Settled(calls[i]) /\ ~calls[i].res.ok) =>
        /\ Done /\ outcome.status = "threw"
        /\ calls[1].kind = CreatePath /\ calls[1].res.ok
        /\ \A i \in 2..Len(calls) :
              /\ calls[i].kind = TagPath
              /\ calls[i].arg = tags[i - 1]
              /\ i < Len(calls) => calls[i].res.ok
        /\ ~calls[Len(calls)].res.ok

\* C26 witness: createEvent with two tags, the second tag call failed
C26_Witness ==
    /\ Done /\ op = "createEvent"
    /\ Len(tags) = 2 /\ Len(calls) = 3
    /\ calls[2].res.ok /\ ~calls[3].res.ok

\* C27: the candidate list misp_get_related_events(eventId) returns never
\* has an entry whose event_id is eventId, whatever the back-references of
\* the source event and the answers of the searches are.
C27_SourceEventExcluded ==
    RelatedResultDone =>
        \A n \in 1..Len(tout.related_events) :
            tout.related_events[n].event_id # targs.eventId

\* C28: in every result of misp_add_attributes_bulk succeeded + failed =
\* total, and every per-item result carries exactly one of an id and an
\* error, also when an add call is answered with a success status and a
\* body without an attribute id.
C28_BulkEntriesIdOrError ==
    (Done /\ op = "misp_add_attributes_bulk") =>
        /\ summary.succeeded + summary.failed = summary.total
        /\ \A i \in 1..Len(results) :
              Truthy(results[i].id) <=> results[i].error.kind = "none"

\* C29: in misp_get_related_events, when the event fetch or a search fails,
\* no further call is issued, the handler ends with the error payload that
\* carries that failure, and the payload holds no candidate found by the
\* earlier searches.
C29_FailureEndsRelated ==
    (RelatedTool /\ \E k \in 1..Len(tcalls) : tcalls[k].settled = "threw") =>
        /\ TLast.settled = "threw"
        /\ \A k \in 1..(Len(tcalls) - 1) : tcalls[k].settled = "returned"
        /\ TDone
        /\ tout.status = "returned" /\ tout.isError /\ tout.kind = "error"
        /\ tout.err = TLast.err
        /\ tout.related_events = <<>> /\ tout.total_related = 0

\* C29 witness: the second of two searches failed after the first had
\* found a candidate
C29_Witness ==
    /\ RelatedTool /\ TDone
    /\ Len(tcalls) = 3 /\ Len(valuesToSearch) = 2
    /\ TLast.settled = "threw"
    /\ Len(relatedMap) > 0 /\ relatedMap[1].correlation_count > 0
    /\ tout.isError

\* C30: the candidate list misp_get_related_events returns has at most one
\* entry per event_id (a back-referenced event that a search matches keeps
\* its one entry), and total_related is the length of the list.
C30_OneEntryPerEvent ==
    RelatedResultDone =>
        /\ \A i, j \in 1..Len(tout.related_events) :
              tout.related_events[i].event_id = tout.related_events[j].event_id => i = j
        /\ tout.total_related = Len(tout.related_events)

\* C30 witness: the one back-referenced event was matched by a search and
\* is the only candidate, with a positive count
C30_Witness ==
    /\ RelatedResultDone
    /\ event.RelatedEvent = <<"43">>
    /\ Len(tcalls) > 1
    /\ Len(tout.related_events) = 1
    /\ tout.related_events[1].event_id = "43"
    /\ tout.related_events[1].correlation_count > 0

====
